---- MODULE Spec2Model ----
(***************************************************************************)
(* Entry-sheet validation and repair pipeline of hca-validation-tools:     *)
(* validate_google_sheet() and process_google_sheet(), with the sheet      *)
(* provider (read, batch write) and the schema engine as environment.      *)
(*                                                                         *)
(* Encoding of Python values:                                              *)
(*   None in a string-typed field is the string None == "<None>", which is *)
(*   no cell value of the model; None in the integer fields is NoRow,      *)
(*   NoCount, NoWorksheetId; an absent metadata object is NoMetadata;      *)
(*   a normalized cell / error input is a tagged record: [t |-> "none"],   *)
(*   [t |-> "str", v |-> s], or [t |-> "row"] (the whole row dict).        *)
(*   A spreadsheet worksheet is the grid the provider returns: row 1 is    *)
(*   the header, the following rows are the dataframe rows.                *)
(***************************************************************************)
EXTENDS Integers, Sequences, FiniteSets, TLC

\* ------------------------------------------------------------------ bounds
\* Largest number of data rows (after the lead-in rows) in the donor worksheet;
\* the dataset and sample worksheets have no data row or one.
MaxRows == 2
\* Largest number of rows after the lead-in rows in a dataframe handed to the
\* row scan on its own.
ScanMaxRows == 5
\* Largest number of rows in a table handed to the uniqueness check or the
\* referential-integrity check on its own.
TableMaxRows == 5
\* Largest number of rows in the dependent table handed to the
\* referential-integrity check on its own.
RefMaxRows == 2

\* ------------------------------------------------------- program constants
None == "<None>"
NoRow == 0
NoCount == -1
NoWorksheetId == -1
NoMetadata == [none |-> TRUE]
start_row_index == 4
source_rows_start_index == 1

default_entity_types == <<"dataset", "donor", "sample">>

sheet_structure_by_entity_type ==
  [dataset |-> [sheet_index |-> 0, primary_key_field |-> "dataset_id"],
   donor   |-> [sheet_index |-> 1, primary_key_field |-> "donor_id"],
   sample  |-> [sheet_index |-> 2, primary_key_field |-> "sample_id"]]

allowed_bionetwork_names ==
  {"adipose", "breast", "development", "eye", "genetic-diversity", "gut",
   "heart", "immune", "kidney", "liver", "lung", "musculoskeletal",
   "nervous-system", "oral", "organoid", "pancreas", "reproduction", "skin"}

schema_classes ==
  [dataset |-> [DEFAULT |-> "Dataset", adipose |-> "AdiposeDataset", gut |-> "GutDataset"],
   donor   |-> [DEFAULT |-> "Donor"],
   sample  |-> [DEFAULT |-> "Sample", adipose |-> "AdiposeSample", gut |-> "GutSample"],
   cell    |-> [DEFAULT |-> "Cell"]]

get_entity_class_name(schema_type, bionetwork) ==
  LET type_classes == schema_classes[schema_type]
  IN  IF bionetwork \in DOMAIN type_classes
        THEN type_classes[bionetwork]
        ELSE type_classes["DEFAULT"]

sheet_value_fix_map_refixable ==
  [donor  |-> [manner_of_death |-> [not_applicable |-> "not_applicable"]],
   sample |-> [sample_source |->
                 [surgical_donor     |-> "surgical_donor",
                  postmortem_donor   |-> "postmortem donor",
                  living_organ_donor |-> "living organ donor"]]]

sheet_value_fix_map ==
  [donor  |-> [manner_of_death |-> [not_applicable |-> "not applicable"]],
   sample |-> [sample_source |->
                 [surgical_donor     |-> "surgical donor",
                  postmortem_donor   |-> "postmortem donor",
                  living_organ_donor |-> "living organ donor"],
               sample_collection_method |->
                 [surgical_resection |-> "surgical resection",
                  blood_draw         |-> "blood draw",
                  body_fluid         |-> "body fluid"]]]

\* ------------------------------------------------------------ the schema
\* The schema engine is an environment component.  Two releases of the
\* enumerations are in the repository: the generated Pydantic module, whose
\* permissible values are the underscore names, and the one the entry-sheet
\* tests and the slot notes describe, whose values are written with spaces.
SchemaReleases == {"generated", "current"}

MannerOfDeath(release) ==
  {"1", "2", "3", "4", "0", "unknown"}
    \cup (IF release = "generated" THEN {"not_applicable"} ELSE {"not applicable"})

SampleSource(release) ==
  IF release = "generated"
    THEN {"surgical_donor", "postmortem_donor", "living_organ_donor"}
    ELSE {"surgical donor", "postmortem donor", "living organ donor"}

\* Fields of each schema class that the model's worksheets can carry, in
\* declaration order: name, whether required, and the enumeration if any.
StrField(n)     == [name |-> n, required |-> TRUE, enum |-> "str"]
EnumField(n, e) == [name |-> n, required |-> TRUE, enum |-> e]

ClassFields(class_name) ==
  CASE class_name = "Dataset"    -> <<StrField("dataset_id")>>
    [] class_name = "GutDataset" -> <<StrField("doublet_detection"), StrField("dataset_id")>>
    [] class_name = "AdiposeDataset" -> <<StrField("dataset_id")>>
    [] class_name = "Donor"      -> <<StrField("donor_id"), EnumField("manner_of_death", "MannerOfDeath")>>
    [] class_name \in {"Sample", "GutSample", "AdiposeSample"}
                                 -> <<StrField("sample_id"), StrField("donor_id"),
                                      EnumField("sample_source", "SampleSource")>>
    [] OTHER                     -> <<>>

FieldNames(class_name) == {ClassFields(class_name)[i].name : i \in DOMAIN ClassFields(class_name)}

EnumValues(release, enum) ==
  IF enum = "MannerOfDeath" THEN MannerOfDeath(release) ELSE SampleSource(release)

get_class_identifier_name(class_name) ==
  CASE class_name \in {"Dataset", "GutDataset", "AdiposeDataset"} -> "dataset_id"
    [] class_name = "Donor" -> "donor_id"
    [] OTHER -> "sample_id"

\* ---------------------------------------------------------------- helpers
Whitespace == {"", " ", "   "}
\* str.strip() on the cell values of the model (no value has surrounding blanks
\* other than the all-blank ones).
Strip(s) == IF s \in Whitespace THEN "" ELSE s

NoneVal == [t |-> "none"]
StrVal(s) == [t |-> "str", v |-> s]
RowVal == [t |-> "row"]
ListVal(items) == [t |-> "list", items |-> items]

RECURSIVE SeqConcat(_)
SeqConcat(ss) == IF ss = <<>> THEN <<>> ELSE Head(ss) \o SeqConcat(Tail(ss))

IndexOf(seq, x) == CHOOSE i \in DOMAIN seq : seq[i] = x /\ \A j \in 1..(i - 1) : seq[j] # x

ColumnLetters == <<"A", "B", "C", "D", "E", "F", "G", "H">>
\* gspread.utils.rowcol_to_a1 for the columns of the model
rowcol_to_a1(row, col) == ColumnLetters[col] \o ToString(row)

\* get_a1 taking the row index for the spreadsheet row.
get_a1_without_offset(sheet_info, row, column) ==
  IF \E i \in DOMAIN sheet_info.source_columns : sheet_info.source_columns[i] = column
    THEN rowcol_to_a1(row, IndexOf(sheet_info.source_columns, column))
    ELSE None

\* WorksheetInfo.get_a1: None stands for the ValueError of list.index
get_a1(sheet_info, row, column) ==
  IF \E i \in DOMAIN sheet_info.source_columns : sheet_info.source_columns[i] = column
    THEN rowcol_to_a1(sheet_info.source_rows_start_index + row,
                      IndexOf(sheet_info.source_columns, column))
    ELSE None

\* ------------------------------------------------------ result records
SheetErrorInfo(entity_type, worksheet_id, message, row, column, cell, primary_key, input) ==
  [entity_type |-> entity_type, worksheet_id |-> worksheet_id, message |-> message,
   row |-> row, column |-> column, cell |-> cell, primary_key |-> primary_key,
   input |-> input, input_fix |-> None]

make_summary_without_entities(error_count, entity_types) ==
  [counts |-> [i \in DOMAIN entity_types |-> NoCount], error_count |-> error_count]

make_validation_result_for_whole_sheet_error(ets, code, message, metadata, ws_id, et) ==
  [successful |-> FALSE,
   spreadsheet_metadata |-> metadata,
   error_code |-> code,
   summary |-> make_summary_without_entities(1, ets),
   errors |-> <<SheetErrorInfo(et, ws_id,
                               IF message = None
                                 THEN "Error processing sheet (Error: " \o code \o ")"
                                 ELSE message,
                               NoRow, None, None, None, NoneVal)>>]

make_read_error_validation_result_as_api_error(entity_types, read_error) ==
  make_validation_result_for_whole_sheet_error(
    entity_types, "api_error", read_error.error_message,
    read_error.spreadsheet_metadata, read_error.worksheet_id, None)

make_read_error_validation_result(entity_types, read_error) ==
  make_validation_result_for_whole_sheet_error(
    entity_types,
    read_error.error_code,
    IF read_error.error_message = None
      THEN "Could not access or read data from sheet (Error: " \o read_error.error_code \o ")"
      ELSE read_error.error_message,
    read_error.spreadsheet_metadata,
    read_error.worksheet_id,
    None)

SheetReadError(error_code, error_message, spreadsheet_metadata, worksheet_id) ==
  [error_code |-> error_code, error_message |-> error_message,
   spreadsheet_metadata |-> spreadsheet_metadata, worksheet_id |-> worksheet_id]

\* ----------------------------------------------------- the schema engine
LineError(loc, msg, input) ==
  [loc |-> loc, msg |-> msg, input |-> input, has_ctx_row |-> FALSE,
   ctx_row_index |-> NoRow, ctx_row_id |-> None]

FieldViolation(release, f, row_dict) ==
  IF f.name \notin DOMAIN row_dict
    THEN <<LineError(f.name, "Field required", RowVal)>>
  ELSE IF row_dict[f.name] = NoneVal
    THEN <<LineError(f.name, "Input should be a valid string", NoneVal)>>
  ELSE IF f.enum # "str" /\ row_dict[f.name].v \notin EnumValues(release, f.enum)
    THEN <<LineError(f.name, "Input should be a permissible value", row_dict[f.name])>>
  ELSE <<>>

\* validator.validate: the Pydantic model of class_name applied to one row;
\* <<>> stands for the None it returns on a valid row.
validate(release, columns, row_dict, class_name) ==
  LET fields == ClassFields(class_name)
      declared == SeqConcat([i \in DOMAIN fields |-> FieldViolation(release, fields[i], row_dict)])
      extra == SeqConcat([i \in DOMAIN columns |->
                 IF columns[i] \notin FieldNames(class_name)
                   THEN <<LineError(columns[i], "Extra inputs are not permitted", row_dict[columns[i]])>>
                   ELSE <<>>])
  IN  declared \o extra

validate_id_uniqueness_keep_first(data, class_name) ==
  LET id_name == get_class_identifier_name(class_name)
      rows == data.rows
      IsDup(k) == /\ rows[k].row[id_name] # NoneVal
                  /\ \E j \in 1..(k - 1) : rows[j].row[id_name] = rows[k].row[id_name]
  IN  IF \A i \in DOMAIN data.columns : data.columns[i] # id_name
        THEN <<>>
        ELSE SeqConcat([k \in DOMAIN rows |->
               IF IsDup(k)
                 THEN <<[loc |-> id_name,
                         msg |-> "Duplicate identifier " \o rows[k].row[id_name].v,
                         input |-> rows[k].row[id_name],
                         has_ctx_row |-> TRUE,
                         ctx_row_index |-> rows[k].index,
                         ctx_row_id |-> rows[k].row[id_name].v]>>
                 ELSE <<>>])

\* validator.validate_id_uniqueness over a normalized dataframe
validate_id_uniqueness(data, class_name) ==
  LET id_name == get_class_identifier_name(class_name)
      rows == data.rows
      IsDup(k) == /\ rows[k].row[id_name] # NoneVal
                  /\ \E j \in DOMAIN rows : j # k /\ rows[j].row[id_name] = rows[k].row[id_name]
  IN  IF \A i \in DOMAIN data.columns : data.columns[i] # id_name
        THEN <<>>
        ELSE SeqConcat([k \in DOMAIN rows |->
               IF IsDup(k)
                 THEN <<[loc |-> id_name,
                         msg |-> "Duplicate identifier " \o rows[k].row[id_name].v,
                         input |-> rows[k].row[id_name],
                         has_ctx_row |-> TRUE,
                         ctx_row_index |-> rows[k].index,
                         ctx_row_id |-> rows[k].row[id_name].v]>>
                 ELSE <<>>])

\* schema_utils.get_class_entity_type
get_class_entity_type(class_name) ==
  CHOOSE entity_type \in DOMAIN schema_classes :
    \E b \in DOMAIN schema_classes[entity_type] : schema_classes[entity_type][b] = class_name

\* schema_utils.get_class_foreign_keys: the slots of the class that are not
\* inlined and range over a class, as the schema declares them.
get_class_foreign_keys(class_name) ==
  CASE class_name \in {"Sample", "GutSample", "AdiposeSample"}
         -> <<[slot |-> "donor_id", range |-> "Donor"],
              [slot |-> "dataset_id", range |-> "Dataset"]>>
    [] class_name = "Donor" -> <<[slot |-> "dataset_id", range |-> "Dataset"]>>
    [] OTHER -> <<>>

HasColumn(data, name) == \E i \in DOMAIN data.columns : data.columns[i] = name

missing_references_only_with_foreign_ids(data, id_name, fk, data_by_entity_type) ==
  LET fk_entity_type == get_class_entity_type(fk.range)
      foreign_data == data_by_entity_type[fk_entity_type]
      foreign_id_name == get_class_identifier_name(fk.range)
      foreign_ids == {foreign_data.rows[j].row[foreign_id_name] : j \in DOMAIN foreign_data.rows}
      Missing(k) == /\ data.rows[k].row[fk.slot] # NoneVal
                    /\ HasColumn(foreign_data, foreign_id_name)
                    /\ data.rows[k].row[fk.slot] \notin foreign_ids
  IN  IF ~HasColumn(data, fk.slot)
        THEN <<>>
        ELSE SeqConcat([k \in DOMAIN data.rows |->
               IF Missing(k)
                 THEN <<[loc |-> fk.slot,
                         msg |-> "Referenced " \o fk_entity_type \o " with ID "
                                   \o data.rows[k].row[fk.slot].v \o " doesn't exist",
                         input |-> data.rows[k].row[fk.slot],
                         has_ctx_row |-> TRUE,
                         ctx_row_index |-> data.rows[k].index,
                         ctx_row_id |-> None]>>
                 ELSE <<>>])

\* The line errors of one foreign key in validate_referential_integrity.
missing_references(data, id_name, fk, data_by_entity_type) ==
  LET fk_entity_type == get_class_entity_type(fk.range)
      foreign_data == data_by_entity_type[fk_entity_type]
      foreign_id_name == get_class_identifier_name(fk.range)
      Missing(k) ==
        /\ data.rows[k].row[fk.slot] # NoneVal
        /\ \/ ~HasColumn(foreign_data, foreign_id_name)
           \/ \A j \in DOMAIN foreign_data.rows :
                foreign_data.rows[j].row[foreign_id_name] # data.rows[k].row[fk.slot]
  IN  IF ~HasColumn(data, fk.slot)
        THEN <<>>
        ELSE SeqConcat([k \in DOMAIN data.rows |->
               IF Missing(k)
                 THEN <<[loc |-> fk.slot,
                         msg |-> "Referenced " \o fk_entity_type \o " with ID "
                                   \o data.rows[k].row[fk.slot].v \o " doesn't exist",
                         input |-> data.rows[k].row[fk.slot],
                         has_ctx_row |-> TRUE,
                         ctx_row_index |-> data.rows[k].index,
                         ctx_row_id |-> IF HasColumn(data, id_name)
                                             /\ data.rows[k].row[id_name] # NoneVal
                                          THEN data.rows[k].row[id_name].v
                                          ELSE None]>>
                 ELSE <<>>])

\* validator.validate_referential_integrity; <<>> stands for the None it
\* returns when no reference is missing.
validate_referential_integrity(data_by_entity_type, class_name) ==
  LET data == data_by_entity_type[get_class_entity_type(class_name)]
      id_name == get_class_identifier_name(class_name)
      foreign_keys == get_class_foreign_keys(class_name)
  IN  SeqConcat([f \in DOMAIN foreign_keys |->
                   missing_references(data, id_name, foreign_keys[f], data_by_entity_type)])

\* ------------------------------------------------- reading a worksheet
worksheet_ids == [dataset |-> 123, donor |-> 456, sample |-> 789]

\* read_worksheets, for one worksheet whose grid has at least two rows
WorksheetInfo(entity_type, grid) ==
  [data |-> Tail(grid),
   worksheet_id |-> worksheet_ids[entity_type],
   source_columns |-> grid[1],
   source_rows_start_index |-> source_rows_start_index]

\* ------------------------------------------------------ validation stage
\* the dataframe without a first column that has no slot name
DataFrameOf(sheet_info) ==
  LET cols == sheet_info.source_columns
      skip == Len(cols) > 1 /\ Strip(cols[1]) = ""
  IN  [columns |-> IF skip THEN Tail(cols) ELSE cols,
       rows |-> [i \in DOMAIN sheet_info.data |->
                   IF skip THEN Tail(sheet_info.data[i]) ELSE sheet_info.data[i]]]

IsEmptyRow(row) == \A j \in DOMAIN row : Strip(row[j]) = ""

RECURSIVE ScanRows_skipping_empty_rows(_, _)
ScanRows_skipping_empty_rows(rows, current_row_index) ==
  IF current_row_index >= Len(rows)
    THEN <<>>
    ELSE (IF IsEmptyRow(rows[current_row_index + 1]) THEN <<>> ELSE <<current_row_index>>)
           \o ScanRows_skipping_empty_rows(rows, current_row_index + 1)

\* 0-based indices of the rows to validate: from start_row_index to the
\* first empty row
RECURSIVE ScanRows(_, _)
ScanRows(rows, current_row_index) ==
  IF current_row_index < Len(rows) /\ ~IsEmptyRow(rows[current_row_index + 1])
    THEN <<current_row_index>> \o ScanRows(rows, current_row_index + 1)
    ELSE <<>>

row_indices(df) == ScanRows(df.rows, start_row_index)

\* ------------------------------------------------- cell values as text
\* For the parsing of cell values a Python string is the sequence of its
\* characters; an integer value is IntVal, a failed call is Raised.
IntVal(n) == [t |-> "int", v |-> n]
Raised(exception) == [raised |-> exception]

Digits == {"0", "1", "2", "3", "4", "5", "6", "7", "8", "9"}

DigitValue(d) ==
  CASE d = "0" -> 0 [] d = "1" -> 1 [] d = "2" -> 2 [] d = "3" -> 3 [] d = "4" -> 4
    [] d = "5" -> 5 [] d = "6" -> 6 [] d = "7" -> 7 [] d = "8" -> 8 [] d = "9" -> 9

\* str.strip() of a text
RECURSIVE lstrip(_)
lstrip(text) == IF text # <<>> /\ Head(text) = " " THEN lstrip(Tail(text)) ELSE text

RECURSIVE rstrip(_)
rstrip(text) ==
  IF text # <<>> /\ text[Len(text)] = " " THEN rstrip(SubSeq(text, 1, Len(text) - 1)) ELSE text

strip(text) == rstrip(lstrip(text))

\* str.split(sep): the pieces between the separators, empty pieces included
RECURSIVE split(_, _)
split(text, sep) ==
  IF \A i \in DOMAIN text : text[i] # sep
    THEN <<text>>
    ELSE LET first == CHOOSE i \in DOMAIN text :
                        text[i] = sep /\ \A j \in 1..(i - 1) : text[j] # sep
         IN  <<SubSeq(text, 1, first - 1)>> \o split(SubSeq(text, first + 1, Len(text)), sep)

\* str.replace(",", "")
without_commas(text) == SelectSeq(text, LAMBDA c : c # ",")

AllDigits(text) == \A i \in DOMAIN text : text[i] \in Digits

\* int_re.fullmatch: -?(\d+ | \d{1,3}(,\d{3})+)
int_re_fullmatch(text) ==
  LET body == IF text # <<>> /\ Head(text) = "-" THEN Tail(text) ELSE text
      groups == split(body, ",")
  IN  \/ Len(body) >= 1 /\ AllDigits(body)
      \/ /\ Len(groups) >= 2
         /\ Len(groups[1]) \in 1..3 /\ AllDigits(groups[1])
         /\ \A g \in 2..Len(groups) : Len(groups[g]) = 3 /\ AllDigits(groups[g])

\* int() of an optional sign and digits
RECURSIVE digits_value(_)
digits_value(text) ==
  IF text = <<>> THEN 0
  ELSE 10 * digits_value(SubSeq(text, 1, Len(text) - 1)) + DigitValue(text[Len(text)])

int(text) ==
  IF Head(text) = "-" THEN 0 - digits_value(Tail(text)) ELSE digits_value(text)

parse_int(value) ==
  IF ~int_re_fullmatch(value) THEN StrVal(value) ELSE IntVal(int(without_commas(value)))

\* The slots of a class as map_column sees them: range and multivalued, or
\* no slot for a column the class does not declare.
NoSlot == [none |-> TRUE]
Slot(range, multivalued) == [range |-> range, multivalued |-> multivalued]

parse_item(slot, value) ==
  IF slot # NoSlot /\ slot.range = "integer" THEN parse_int(value) ELSE StrVal(value)

\* parse_list without trimming the pieces.
parse_list_without_strip(slot, value) ==
  IF strip(value) # <<>>
    THEN LET items == split(value, ";")
         IN  ListVal([i \in DOMAIN items |-> parse_item(slot, items[i])])
    ELSE ListVal(<<>>)

parse_list(slot, value) ==
  IF strip(value) # <<>>
    THEN LET items == split(value, ";")
         IN  ListVal([i \in DOMAIN items |-> parse_item(slot, strip(items[i]))])
    ELSE ListVal(<<>>)

parse_value(slot, value) ==
  IF slot # NoSlot /\ slot.multivalued THEN parse_list(slot, value) ELSE parse_item(slot, value)

\* map_value handing blank cells to the parser of the column.
map_value_parsing_blanks(slot, value) ==
  IF value.t # "str" THEN Raised("AttributeError") ELSE parse_value(slot, value.v)

\* map_column on one value of the column: value.strip() exists for strings only
map_value(slot, value) ==
  IF value.t # "str" THEN Raised("AttributeError")
  ELSE IF strip(value.v) = <<>> THEN NoneVal
  ELSE parse_value(slot, value.v)

\* normalize_dataframe_values for the string and enumeration slots of the model
normalize_dataframe_values(df, indices) ==
  LET kept == SelectSeq(df.columns, LAMBDA name : name # "" /\ Strip(name) # "")
      Cell(r, name) == df.rows[r][IndexOf(df.columns, name)]
  IN  [columns |-> kept,
       rows |-> [k \in DOMAIN indices |->
                   [index |-> indices[k] + 1,
                    row |-> [name \in {kept[i] : i \in DOMAIN kept} |->
                               IF Strip(Cell(indices[k] + 1, name)) = ""
                                 THEN NoneVal
                                 ELSE StrVal(Cell(indices[k] + 1, name))]]]]

\* handle_validation_error: one SheetErrorInfo per line error
handle_validation_error_with_fix(line_errors, entity_type, sheet_info, row_index, row_id) ==
  [i \in DOMAIN line_errors |->
     LET error == line_errors[i]
         table == IF entity_type \in DOMAIN sheet_value_fix_map
                     /\ error.loc \in DOMAIN sheet_value_fix_map[entity_type]
                    THEN sheet_value_fix_map[entity_type][error.loc]
                    ELSE <<>>
     IN  [SheetErrorInfo(entity_type, sheet_info.worksheet_id, error.msg, row_index,
                         error.loc, get_a1(sheet_info, row_index, error.loc),
                         row_id, error.input)
            EXCEPT !.input_fix = IF error.input.t = "str" /\ error.input.v \in DOMAIN table
                                   THEN table[error.input.v] ELSE None]]

handle_validation_error(line_errors, entity_type, sheet_info, row_index, row_id) ==
  [i \in DOMAIN line_errors |->
     LET error == line_errors[i]
         error_row_index == IF error.has_ctx_row THEN error.ctx_row_index ELSE row_index
         error_row_id == IF error.has_ctx_row THEN error.ctx_row_id ELSE row_id
     IN  SheetErrorInfo(entity_type, sheet_info.worksheet_id, error.msg, error_row_index,
                        error.loc, get_a1(sheet_info, error_row_index, error.loc),
                        error_row_id, error.input)]

\* The first loop of validate_google_sheet: rows to validate per entity
\* type, or the position of the first worksheet without data.
RowsToValidate(entity_types, worksheets, i) ==
  LET df == DataFrameOf(worksheets[i])
  IN  normalize_dataframe_values(df, row_indices(df))

NoDataAt_first_worksheet_only(entity_types, worksheets) ==
  {i \in DOMAIN entity_types :
     i = 1 /\ i \in DOMAIN worksheets /\ row_indices(DataFrameOf(worksheets[i])) = <<>>}

NoDataAt(entity_types, worksheets) ==
  {i \in DOMAIN entity_types :
     i \in DOMAIN worksheets /\ row_indices(DataFrameOf(worksheets[i])) = <<>>}

Min(S) == CHOOSE m \in S : \A n \in S : m <= n

\* The summary's error count, the list of errors and the all_valid flag, as
\* the second loop of validate_google_sheet updates them.
NoErrors == [error_count |-> 0, errors |-> <<>>, all_valid |-> TRUE]

report_validation_error_keeps_valid(acc, line_errors, entity_type, sheet_info, row_index, row_id) ==
  [error_count |-> acc.error_count + Len(line_errors),
   errors |-> acc.errors \o handle_validation_error(line_errors, entity_type,
                                                    sheet_info, row_index, row_id),
   all_valid |-> acc.all_valid]

\* A ValidationError that is not None is handed to handle_validation_error:
\* every line error is counted and appended.
report_validation_error(acc, line_errors, entity_type, sheet_info, row_index, row_id) ==
  IF line_errors = <<>>
    THEN acc
    ELSE [error_count |-> acc.error_count + Len(line_errors),
          errors |-> acc.errors \o handle_validation_error(line_errors, entity_type,
                                                           sheet_info, row_index, row_id),
          all_valid |-> FALSE]

report_exception_uncounted(acc, entity_type, sheet_info, row_index, row_primary_key) ==
  [error_count |-> acc.error_count,
   errors |-> Append(acc.errors,
                     SheetErrorInfo(entity_type, sheet_info.worksheet_id, "engine exception",
                                    row_index, None, None, row_primary_key, NoneVal)),
   all_valid |-> FALSE]

\* The except-clause around the validation of one row.
report_exception(acc, entity_type, sheet_info, row_index, row_primary_key) ==
  [error_count |-> acc.error_count + 1,
   errors |-> Append(acc.errors,
                     SheetErrorInfo(entity_type, sheet_info.worksheet_id, "engine exception",
                                    row_index, None, None, row_primary_key, NoneVal)),
   all_valid |-> FALSE]

\* Errors of one row: the engine's violations, or the one error that
\* replaces them when the engine raises.
RowErrors(acc, release, entity_type, sheet_info, data, k, class_name, engine_raises) ==
  LET r == data.rows[k]
      primary_key_field == sheet_structure_by_entity_type[entity_type].primary_key_field
      row_primary_key ==
        IF primary_key_field \in DOMAIN r.row
          THEN primary_key_field \o ":" \o
               (IF r.row[primary_key_field] = NoneVal THEN "None" ELSE r.row[primary_key_field].v)
          ELSE None
  IN  IF engine_raises
        THEN report_exception(acc, entity_type, sheet_info, r.index, row_primary_key)
        ELSE report_validation_error(acc, validate(release, data.columns, r.row, class_name),
                                     entity_type, sheet_info, r.index, row_primary_key)

\* ValidateRows leaving the worksheet at the row on which the engine raises.
RECURSIVE ValidateRows_stopping_at_exception(_, _, _, _, _, _, _, _)
ValidateRows_stopping_at_exception(acc, release, fault, entity_type, sheet_info, data, class_name, k) ==
  IF k > Len(data.rows)
    THEN acc
  ELSE IF entity_type = "donor" /\ data.rows[k].index = fault
    THEN RowErrors(acc, release, entity_type, sheet_info, data, k, class_name, TRUE)
    ELSE ValidateRows_stopping_at_exception(
           RowErrors(acc, release, entity_type, sheet_info, data, k, class_name, FALSE),
           release, fault, entity_type, sheet_info, data, class_name, k + 1)

\* The loop over the rows of one worksheet, from row k on; the engine raises
\* on the donor row whose index is fault.
RECURSIVE ValidateRows(_, _, _, _, _, _, _, _)
ValidateRows(acc, release, fault, entity_type, sheet_info, data, class_name, k) ==
  IF k > Len(data.rows)
    THEN acc
    ELSE ValidateRows(RowErrors(acc, release, entity_type, sheet_info, data, k, class_name,
                                entity_type = "donor" /\ data.rows[k].index = fault),
                      release, fault, entity_type, sheet_info, data, class_name, k + 1)

\* Errors of one worksheet: uniqueness first, then row by row.
WorksheetErrors(acc, release, fault, entity_type, sheet_info, data, class_name) ==
  ValidateRows(report_validation_error(acc, validate_id_uniqueness(data, class_name),
                                       entity_type, sheet_info, NoRow, None),
               release, fault, entity_type, sheet_info, data, class_name, 1)

\* The loop over the worksheets, from position i on.
RECURSIVE ValidateWorksheets(_, _, _, _, _, _, _, _)
ValidateWorksheets(acc, release, fault, entity_types, bionetwork, worksheets, datas, i) ==
  IF i > Len(datas)
    THEN acc
    ELSE ValidateWorksheets(
           WorksheetErrors(acc, release, fault, entity_types[i], worksheets[i], datas[i],
                           get_entity_class_name(entity_types[i], bionetwork)),
           release, fault, entity_types, bionetwork, worksheets, datas, i + 1)

\* validate_google_sheet from the point where sheet_read_result is known
ValidateSheetData(release, fault, entity_types, bionetwork, sheet_read_result) ==
  LET worksheets == sheet_read_result.worksheets
      n == IF Len(entity_types) < Len(worksheets) THEN Len(entity_types) ELSE Len(worksheets)
      empty == NoDataAt(entity_types, worksheets)
  IN  IF empty # {}
        THEN make_validation_result_for_whole_sheet_error(
               entity_types, "no_data",
               "No data found to validate starting from " \o entity_types[Min(empty)] \o " row 6.",
               sheet_read_result.spreadsheet_metadata,
               worksheets[Min(empty)].worksheet_id,
               entity_types[Min(empty)])
        ELSE
          LET datas == [i \in 1..n |-> RowsToValidate(entity_types, worksheets, i)]
              validated == ValidateWorksheets(NoErrors, release, fault, entity_types,
                                              bionetwork, worksheets, datas, 1)
          IN  [successful |-> validated.all_valid,
               spreadsheet_metadata |-> sheet_read_result.spreadsheet_metadata,
               error_code |-> IF validated.all_valid THEN None ELSE "validation_error",
               summary |-> [counts |-> [i \in 1..n |-> Len(datas[i].rows)],
                            error_count |-> validated.error_count],
               errors |-> validated.errors]

\* --------------------------------------------------------- fix resolver
\* The attributes of the induced class: the fields the worksheets of the
\* model carry and, for the sample classes, sample_collection_method, which
\* the fix table names.
induced_class_attributes(class_name) ==
  FieldNames(class_name) \cup
    (IF class_name \in {"Sample", "GutSample", "AdiposeSample"}
       THEN {"sample_collection_method"} ELSE {})

get_fixed_value(entity_type, class_name, slot_name, value) ==
  IF slot_name \notin induced_class_attributes(class_name)
    THEN None
  ELSE IF /\ entity_type \in DOMAIN sheet_value_fix_map
          /\ slot_name \in DOMAIN sheet_value_fix_map[entity_type]
          /\ value \in DOMAIN sheet_value_fix_map[entity_type][slot_name]
    THEN sheet_value_fix_map[entity_type][slot_name][value]
  ELSE None

\* add_fix_to_error_if_available putting the fix in the place of the input too.
add_fix_to_error_if_available_replacing_input(error, bionetwork) ==
  IF error.entity_type = None \/ error.column = None \/ error.input.t # "str"
    THEN error
    ELSE LET input_fix == get_fixed_value(error.entity_type,
                                          get_entity_class_name(error.entity_type, bionetwork),
                                          error.column, error.input.v)
         IN  IF input_fix = None
               THEN error
               ELSE [error EXCEPT !.input_fix = input_fix, !.input = StrVal(input_fix)]

\* add_fix_to_error_if_available taking a one-element list for its element.
add_fix_to_error_if_available_unwrapping_lists(error, bionetwork) ==
  LET unwrapped == IF error.input.t = "list" /\ Len(error.input.items) = 1
                     THEN StrVal(error.input.items[1]) ELSE error.input
  IN  IF error.entity_type = None \/ error.column = None \/ unwrapped.t # "str"
        THEN error
        ELSE [error EXCEPT !.input_fix =
                get_fixed_value(error.entity_type,
                                get_entity_class_name(error.entity_type, bionetwork),
                                error.column, unwrapped.v)]

add_fix_to_error_if_available(error, bionetwork) ==
  IF error.entity_type = None \/ error.column = None \/ error.input.t # "str"
    THEN error
    ELSE [error EXCEPT !.input_fix =
            get_fixed_value(error.entity_type,
                            get_entity_class_name(error.entity_type, bionetwork),
                            error.column, error.input.v)]

add_fixes_to_errors(errors, bionetwork) ==
  [i \in DOMAIN errors |-> add_fix_to_error_if_available(errors[i], bionetwork)]

\* -------------------------------------------------------- fix applicator
get_fix_value_range(a1, value) == [range |-> a1, values |-> <<<<value>>>>]

\* get_fix_value_ranges keeping the last fix of a cell instead of the first.
get_fix_value_ranges_last_fix_per_cell(errors, entity_type) ==
  LET Fixable(i) == /\ errors[i].input_fix # None
                    /\ errors[i].entity_type # None
                    /\ errors[i].cell # None
      Last(i) == \A j \in (i + 1)..Len(errors) :
                   ~(Fixable(j) /\ errors[j].entity_type = errors[i].entity_type
                                /\ errors[j].cell = errors[i].cell)
  IN  SeqConcat([i \in DOMAIN errors |->
        IF Fixable(i) /\ Last(i) /\ errors[i].entity_type = entity_type
          THEN <<get_fix_value_range(errors[i].cell, errors[i].input_fix)>>
          ELSE <<>>])

\* the value ranges of one entity type, in error order, first fix per cell
get_fix_value_ranges(errors, entity_type) ==
  LET Fixable(i) == /\ errors[i].input_fix # None
                    /\ errors[i].entity_type # None
                    /\ errors[i].cell # None
      First(i) == \A j \in 1..(i - 1) :
                    ~(Fixable(j) /\ errors[j].entity_type = errors[i].entity_type
                                 /\ errors[j].cell = errors[i].cell)
  IN  SeqConcat([i \in DOMAIN errors |->
        IF Fixable(i) /\ First(i) /\ errors[i].entity_type = entity_type
          THEN <<get_fix_value_range(errors[i].cell, errors[i].input_fix)>>
          ELSE <<>>])

get_fix_value_ranges_by_entity_type(errors, entity_types) ==
  [i \in DOMAIN entity_types |-> get_fix_value_ranges(errors, entity_types[i])]

\* ------------------------------------------------------------ the sheet
\* Header row of each worksheet of the model.
Columns ==
  [dataset |-> <<"dataset_id">>,
   donor   |-> <<"donor_id", "manner_of_death">>,
   sample  |-> <<"sample_id", "sample_source", "donor_id">>]

\* The rows above spreadsheet row 6: a description row and three blank rows.
LeadIn(cols) ==
  [i \in 1..start_row_index |-> [c \in DOMAIN cols |-> IF i = 1 THEN "Description" ELSE ""]]

DataRowChoices ==
  [dataset |-> {<<"ds1">>},
   donor   |-> {<<id, m>> : id \in {"dn1", "dn2"}, m \in {"not_applicable", "not applicable"}},
   sample  |-> {<<"sm1", src, dn>> : src \in {"surgical_donor", "surgical donor"},
                                      dn \in {"dn1", "dn9"}}]

SeqsUpTo(S, n) == UNION {[1..k -> S] : k \in 0..n}

DataRows(entity_type) ==
  IF entity_type = "donor"
    THEN SeqsUpTo(DataRowChoices[entity_type], MaxRows)
    ELSE {<<>>} \cup {<<r>> : r \in DataRowChoices[entity_type]}

Grids(entity_type) ==
  {<<Columns[entity_type]>> \o LeadIn(Columns[entity_type]) \o rows :
     rows \in DataRows(entity_type)}

\* The provider applying one batch of value ranges to a worksheet grid.
batch_update(grid, value_ranges) ==
  [g \in DOMAIN grid |->
     [c \in DOMAIN grid[g] |->
        LET hits == {k \in DOMAIN value_ranges : value_ranges[k].range = rowcol_to_a1(g, c)}
        IN  IF hits = {} THEN grid[g][c]
                         ELSE value_ranges[CHOOSE k \in hits : \A j \in hits : j <= k].values[1][1]]]

SpreadsheetMetadata(editable) == [spreadsheet_title |-> "Test Sheet Title", can_edit |-> editable]

\* What a successful read_sheet_with_service_account returns.
SpreadsheetInfo(grids, editable, entity_types) ==
  [spreadsheet_metadata |-> SpreadsheetMetadata(editable),
   worksheets |-> [i \in DOMAIN entity_types |-> WorksheetInfo(entity_types[i], grids[entity_types[i]])]]

\* Failures of init_apis and of read_sheet_with_service_account, one of each
\* shape: without message or metadata, with a message, with metadata, with a
\* worksheet id.
InitApisErrors ==
  {SheetReadError("auth_missing", None, NoMetadata, NoWorksheetId),
   SheetReadError("api_error", "Received error 500 from Google Sheets API: Test error",
                  NoMetadata, NoWorksheetId)}

ReadErrors(editable) ==
  {SheetReadError("sheet_not_found", None, NoMetadata, NoWorksheetId),
   SheetReadError("max_api_retries", None, SpreadsheetMetadata(editable), NoWorksheetId),
   SheetReadError("sheet_data_empty", None, SpreadsheetMetadata(editable), worksheet_ids["donor"])}

\* The engine raises on no row, or on the first data row of the donor worksheet.
EngineFaults == {NoRow, start_row_index + 1}

\* Call arguments.
ArgBionetworks == {None, "gut", "not-a-bionetwork"}
ArgEntityTypes == {default_entity_types, <<"dataset", "cell">>}

valid_bionetwork(b) == b = None \/ b \in allowed_bionetwork_names
invalid_entity_types(ets) ==
  SelectSeq(ets, LAMBDA t : t \notin DOMAIN sheet_structure_by_entity_type)

\* ------------------------------------------------------- state machine
VARIABLES
  sheet,              \* the spreadsheet at the provider: entity type -> grid
  can_edit,           \* capabilities.canModifyContent of the credentials
  release,            \* the schema release the engine validates against
  engine_fault,       \* index of the donor row on which the engine raises, or NoRow
  pc,                 \* position of the call in progress
  entry,              \* "validate" or "process"
  bionetwork,         \* argument
  entity_types,       \* argument
  sheet_data,         \* process_google_sheet: sheet_data, NoMetadata-like when None
  validation_result,  \* process_google_sheet: validation_result
  value_ranges,       \* apply_fixes: value_ranges_by_entity_type
  ws_pos,             \* apply_fixes: position in the loop over entity types
  made_fixes,         \* apply_fixes: made_fixes
  made_changes,       \* process_google_sheet: made_changes ("unset" until assigned)
  outcome,            \* "pending", "returned", or the exception that left the call
  result,             \* the SheetValidationResult returned
  reads,              \* sheet reads attempted at the provider
  validations,        \* runs of the validation stage
  fix_passes,         \* runs of add_fixes_to_errors
  writes,             \* batch_update calls issued, in order
  anomaly,            \* "still has fixes available" was logged
  read_error,         \* error code with which the initial read failed, or None
  write_error,        \* exception a batch_update call raised, or None
  prev,               \* result of the validate() call that preceded this call
  call,               \* a component called on its own: its name and arguments
  ret                 \* what that call returned

pipeline == <<sheet, can_edit, release, engine_fault, pc, entry, bionetwork, entity_types, sheet_data,
              validation_result, value_ranges, ws_pos, made_fixes, made_changes, outcome,
              result, reads, validations, fix_passes, writes, anomaly, read_error,
              write_error, prev>>

unit == <<call, ret>>
vars == <<pipeline, unit>>

NoResult == [none |-> TRUE]
NoSheetData == [none |-> TRUE]

env == <<sheet, can_edit, release, engine_fault>>
args == <<entry, bionetwork, entity_types>>
locals == <<sheet_data, validation_result, value_ranges, ws_pos, made_fixes, made_changes>>
observed == <<reads, validations, fix_passes, writes, anomaly, read_error, write_error>>

\* No call is in progress.
Idle ==
  /\ pc = "idle"
  /\ entry = None
  /\ bionetwork = None
  /\ entity_types = <<>>
  /\ sheet_data = NoSheetData
  /\ validation_result = NoResult
  /\ value_ranges = <<>>
  /\ ws_pos = 1
  /\ made_fixes = FALSE
  /\ outcome = "pending"
  /\ result = NoResult
  /\ reads = 0
  /\ validations = 0
  /\ fix_passes = 0
  /\ writes = <<>>
  /\ anomaly = FALSE
  /\ made_changes = "unset"
  /\ read_error = None
  /\ write_error = None
  /\ prev = NoResult

\* No component is called on its own.
NoCall == [fn |-> None]

Init ==
  /\ sheet \in [dataset : Grids("dataset"), donor : Grids("donor"), sample : Grids("sample")]
  /\ can_edit \in BOOLEAN
  /\ release \in SchemaReleases
  /\ engine_fault \in EngineFaults
  /\ Idle
  /\ call = NoCall
  /\ ret = NoCall

Return(r) == pc' = "done" /\ outcome' = "returned" /\ result' = r
Raise(exception) == pc' = "done" /\ outcome' = exception /\ result' = NoResult

\* validate_google_sheet(sheet_id, entity_types=..., bionetwork=...) is called:
\* parameter validation, before anything is read.
CallValidate ==
  /\ pc = "idle"
  /\ \E b \in ArgBionetworks, ets \in ArgEntityTypes :
       /\ entry' = "validate"
       /\ bionetwork' = b
       /\ entity_types' = ets
       /\ IF ~valid_bionetwork(b) \/ invalid_entity_types(ets) # <<>>
            THEN Raise("ValueError")
            ELSE pc' = "v_read" /\ UNCHANGED <<outcome, result>>
  /\ UNCHANGED <<env, locals, observed, prev>>
  /\ UNCHANGED unit

\* validate_google_sheet reads the sheet (initializing the APIs on the way),
\* runs the validation stage and returns.
ValidateReadAndValidate ==
  /\ pc = "v_read"
  /\ \/ \E e \in InitApisErrors :
          /\ Return(make_read_error_validation_result(entity_types, e))
          /\ read_error' = e.error_code
          /\ UNCHANGED <<reads, validations>>
     \/ \E e \in ReadErrors(can_edit) :
          /\ reads' = reads + 1
          /\ Return(make_read_error_validation_result(entity_types, e))
          /\ read_error' = e.error_code
          /\ UNCHANGED validations
     \/ /\ reads' = reads + 1
        /\ validations' = validations + 1
        /\ Return(ValidateSheetData(release, engine_fault, entity_types, bionetwork,
                                    SpreadsheetInfo(sheet, can_edit, entity_types)))
        /\ UNCHANGED read_error
  /\ UNCHANGED <<env, args, locals, fix_passes, writes, anomaly, write_error, prev>>
  /\ UNCHANGED unit

\* The first statements of process_google_sheet: init_apis().
StartProcess(ets) ==
  \/ pc' = "p_read" /\ UNCHANGED <<outcome, result, read_error>>
  \/ \E e \in InitApisErrors :
       /\ Return(make_read_error_validation_result(ets, e))
       /\ read_error' = e.error_code

\* process_google_sheet(sheet_id, entity_types=..., bionetwork=...) is called
\* and initializes the APIs.
CallProcess ==
  /\ pc = "idle"
  /\ \E b \in ArgBionetworks, ets \in ArgEntityTypes :
       /\ entry' = "process"
       /\ bionetwork' = b
       /\ entity_types' = ets
       /\ StartProcess(ets)
  /\ UNCHANGED <<env, locals, reads, validations, fix_passes, writes, anomaly,
                 write_error, prev>>
  /\ UNCHANGED unit

\* process_google_sheet reads the spreadsheet.
ProcessRead ==
  /\ pc = "p_read"
  /\ IF invalid_entity_types(entity_types) # <<>>
       THEN Raise("KeyError") /\ UNCHANGED <<sheet_data, reads, read_error>>
       ELSE \/ /\ reads' = reads + 1
               /\ sheet_data' = SpreadsheetInfo(sheet, can_edit, entity_types)
               /\ pc' = "p_validate"
               /\ UNCHANGED <<outcome, result, read_error>>
            \/ \E e \in ReadErrors(can_edit) :
                 /\ reads' = reads + 1
                 /\ Return(make_read_error_validation_result(entity_types, e))
                 /\ read_error' = e.error_code
                 /\ UNCHANGED sheet_data
  /\ UNCHANGED <<env, args, validation_result, value_ranges, ws_pos, made_fixes,
                 made_changes, validations, fix_passes, writes, anomaly, write_error, prev>>
  /\ UNCHANGED unit

may_apply_fixes_without_can_edit(result_with_fixes) ==
  result_with_fixes.spreadsheet_metadata # NoMetadata

may_apply_fixes_when_read_only(result_with_fixes) ==
  /\ result_with_fixes.spreadsheet_metadata # NoMetadata
  /\ ~result_with_fixes.spreadsheet_metadata.can_edit

\* The condition under which process_google_sheet calls apply_fixes.
may_apply_fixes(result_with_fixes) ==
  /\ result_with_fixes.spreadsheet_metadata # NoMetadata
  /\ result_with_fixes.spreadsheet_metadata.can_edit

\* process_google_sheet validates the data it read, adds the available fixes
\* and, on an editable spreadsheet, enters apply_fixes.
ProcessValidate ==
  /\ pc = "p_validate"
  /\ IF ~valid_bionetwork(bionetwork)
       THEN /\ Raise("ValueError")
            /\ UNCHANGED <<validation_result, value_ranges, ws_pos, made_fixes,
                           validations, fix_passes>>
       ELSE \E validated \in {ValidateSheetData(release, engine_fault, entity_types, bionetwork, sheet_data)} :
            \E with_fixes \in {[validated EXCEPT
                                   !.errors = add_fixes_to_errors(validated.errors, bionetwork)]} :
                /\ validations' = validations + 1
                /\ fix_passes' = fix_passes + 1
                /\ validation_result' = with_fixes
                /\ IF may_apply_fixes(with_fixes)
                     THEN /\ value_ranges' =
                               get_fix_value_ranges_by_entity_type(with_fixes.errors, entity_types)
                          /\ ws_pos' = 1
                          /\ made_fixes' = FALSE
                          /\ pc' = "p_apply"
                          /\ UNCHANGED <<outcome, result>>
                     ELSE /\ Return(with_fixes)
                          /\ UNCHANGED <<value_ranges, ws_pos, made_fixes>>
  /\ UNCHANGED <<env, args, sheet_data, made_changes, reads, writes, anomaly, read_error,
                 write_error, prev>>
  /\ UNCHANGED unit

\* The except-clause of process_google_sheet for gspread's APIError.
api_error_result_without_metadata(ets, code, message, data) ==
  make_validation_result_for_whole_sheet_error(
    ets, "api_error",
    "Received error " \o code \o " from Google Sheets API: " \o message,
    NoMetadata, NoWorksheetId, None)

api_error_result(ets, code, message, data) ==
  make_validation_result_for_whole_sheet_error(
    ets, "api_error",
    "Received error " \o code \o " from Google Sheets API: " \o message,
    IF data = NoSheetData THEN NoMetadata ELSE data.spreadsheet_metadata,
    NoWorksheetId, None)

\* NextWrite not skipping the worksheets without value ranges.
NextWrite_without_skipping ==
  IF ws_pos > Len(entity_types) THEN 0 ELSE ws_pos

\* Position of the next worksheet apply_fixes writes to, 0 when none is left.
NextWrite ==
  LET left == {i \in ws_pos..Len(entity_types) : value_ranges[i] # <<>>}
  IN  IF left = {} THEN 0 ELSE Min(left)

\* apply_fixes issues the batch write of the next worksheet that has value
\* ranges.  The provider applies it, or fails with an API error (the batch
\* then may or may not have been applied), or the request fails otherwise
\* (retries exhausted, connection lost).
ApplyFixesWrite ==
  /\ pc = "p_apply"
  /\ NextWrite # 0
  /\ LET i == NextWrite
         et == entity_types[i]
         applied == [sheet EXCEPT ![et] = batch_update(@, value_ranges[i])]
     IN  /\ writes' = Append(writes, [entity_type |-> et, value_ranges |-> value_ranges[i]])
         /\ \/ /\ sheet' = applied
               /\ made_fixes' = TRUE
               /\ ws_pos' = i + 1
               /\ UNCHANGED <<pc, outcome, result, write_error>>
            \/ /\ sheet' \in {sheet, applied}
               /\ write_error' = "APIError"
               /\ Return(api_error_result(entity_types, "500", "Test error", sheet_data))
               /\ UNCHANGED <<made_fixes, ws_pos>>
            \/ /\ sheet' \in {sheet, applied}
               /\ write_error' = "RetryError"
               /\ Raise("RetryError")
               /\ UNCHANGED <<made_fixes, ws_pos>>
  /\ UNCHANGED <<can_edit, release, engine_fault, args, sheet_data, validation_result, value_ranges,
                 made_changes, reads, validations, fix_passes, anomaly, read_error, prev>>
  /\ UNCHANGED unit

ApplyFixesReturn_always_revalidates ==
  /\ pc = "p_apply"
  /\ NextWrite = 0
  /\ made_changes' = IF made_fixes THEN "True" ELSE "False"
  /\ pc' = "p_revalidate"
  /\ UNCHANGED <<outcome, result>>
  /\ UNCHANGED <<env, args, sheet_data, validation_result, value_ranges, ws_pos,
                 made_fixes, observed, prev>>
  /\ UNCHANGED unit

\* apply_fixes returns made_fixes; without changes process_google_sheet
\* returns the validation result it has.
ApplyFixesReturn ==
  /\ pc = "p_apply"
  /\ NextWrite = 0
  /\ made_changes' = IF made_fixes THEN "True" ELSE "False"
  /\ IF made_fixes
       THEN pc' = "p_revalidate" /\ UNCHANGED <<outcome, result>>
       ELSE Return(validation_result)
  /\ UNCHANGED <<env, args, sheet_data, validation_result, value_ranges, ws_pos,
                 made_fixes, observed, prev>>
  /\ UNCHANGED unit

ProcessRevalidate_restarts ==
  /\ pc = "p_revalidate"
  /\ reads' = reads + 1
  /\ sheet_data' = SpreadsheetInfo(sheet, can_edit, entity_types)
  /\ pc' = "p_validate"
  /\ UNCHANGED <<env, args, validation_result, value_ranges, ws_pos, made_fixes,
                 made_changes, outcome, result, validations, fix_passes, writes, anomaly,
                 read_error, write_error, prev>>
  /\ UNCHANGED unit

\* ProcessRevalidate returning the errors with the fixes the resolver found.
ProcessRevalidate_returning_fix_info ==
  /\ pc = "p_revalidate"
  /\ reads' = reads + 1
  /\ fix_passes' = fix_passes + 1
  /\ \E revalidated \in {ValidateSheetData(release, engine_fault, entity_types, bionetwork,
                                             SpreadsheetInfo(sheet, can_edit, entity_types))} :
     \E errors_with_fix_info \in {add_fixes_to_errors(revalidated.errors, bionetwork)} :
         /\ validations' = validations + 1
         /\ validation_result' = [revalidated EXCEPT !.errors = errors_with_fix_info]
         /\ anomaly' = \E i \in DOMAIN errors_with_fix_info :
                          errors_with_fix_info[i].input_fix # None
         /\ Return([revalidated EXCEPT !.errors = errors_with_fix_info])
  /\ UNCHANGED <<env, args, sheet_data, value_ranges, ws_pos, made_fixes, made_changes,
                 writes, read_error, write_error, prev>>
  /\ UNCHANGED unit

\* After changes: validate_google_sheet(..., apis=apis) reads the sheet again
\* and validates it; fixes still available are logged; the new result is
\* returned.
ProcessRevalidate ==
  /\ pc = "p_revalidate"
  /\ reads' = reads + 1
  /\ fix_passes' = fix_passes + 1
  /\ \/ \E e \in ReadErrors(can_edit) :
          \E revalidated \in {make_read_error_validation_result(entity_types, e)} :
          \E errors_with_fix_info \in {add_fixes_to_errors(revalidated.errors, bionetwork)} :
              /\ validation_result' = revalidated
              /\ anomaly' = \E i \in DOMAIN errors_with_fix_info :
                               errors_with_fix_info[i].input_fix # None
              /\ Return(revalidated)
              /\ UNCHANGED validations
     \/ \E revalidated \in {ValidateSheetData(release, engine_fault, entity_types, bionetwork,
                                                SpreadsheetInfo(sheet, can_edit, entity_types))} :
        \E errors_with_fix_info \in {add_fixes_to_errors(revalidated.errors, bionetwork)} :
            /\ validations' = validations + 1
            /\ validation_result' = revalidated
            /\ anomaly' = \E i \in DOMAIN errors_with_fix_info :
                             errors_with_fix_info[i].input_fix # None
            /\ Return(revalidated)
  /\ UNCHANGED <<env, args, sheet_data, value_ranges, ws_pos, made_fixes, made_changes,
                 writes, read_error, write_error, prev>>
  /\ UNCHANGED unit

\* The spreadsheet is shared: between the writes of apply_fixes and the second
\* read another editor replaces a valid manner_of_death, in a donor cell that
\* apply_fixes did not write, by the underscore name of the value.
OtherEditorEdits ==
  /\ pc = "p_revalidate"
  /\ \E g \in (start_row_index + 2)..Len(sheet.donor) :
       /\ sheet.donor[g][2] = "not applicable"
       /\ \A i \in DOMAIN writes : \A k \in DOMAIN writes[i].value_ranges :
            writes[i].entity_type = "donor" => writes[i].value_ranges[k].range # rowcol_to_a1(g, 2)
       /\ sheet' = [sheet EXCEPT !.donor[g][2] = "not_applicable"]
  /\ UNCHANGED <<can_edit, release, engine_fault, args, locals, observed, pc, outcome, result, prev>>
  /\ UNCHANGED unit

\* A validate() call that returned a validation of the sheet is followed by a
\* process() call with the same arguments on the same spreadsheet.
CallProcessAfterValidate ==
  /\ pc = "done"
  /\ entry = "validate"
  /\ outcome = "returned"
  /\ validations = 1
  /\ prev = NoResult
  /\ prev' = result
  /\ entry' = "process"
  /\ reads' = 0
  /\ validations' = 0
  /\ \/ pc' = "p_read" /\ outcome' = "pending" /\ result' = NoResult /\ UNCHANGED read_error
     \/ \E e \in InitApisErrors :
          /\ Return(make_read_error_validation_result(entity_types, e))
          /\ read_error' = e.error_code
  /\ UNCHANGED <<env, bionetwork, entity_types, locals, fix_passes, writes, anomaly,
                 write_error>>
  /\ UNCHANGED unit

Next ==
  \/ CallValidate
  \/ ValidateReadAndValidate
  \/ CallProcess
  \/ ProcessRead
  \/ ProcessValidate
  \/ ApplyFixesWrite
  \/ ApplyFixesReturn
  \/ ProcessRevalidate
  \/ OtherEditorEdits
  \/ CallProcessAfterValidate

Spec == Init /\ [][Next]_vars

----------------------------------------------------------------------------
\* Properties of the pipeline.

ValidArguments == valid_bionetwork(bionetwork) /\ invalid_entity_types(entity_types) = <<>>

\* r is a whole-sheet failure with the given error code: not successful, the
\* count of every requested entity type null (three of them for valid
\* arguments), error_count 1 and exactly one error.
WholeSheetFailure(r, error_code) ==
  /\ r.successful = FALSE
  /\ r.error_code = error_code
  /\ DOMAIN r.summary.counts = DOMAIN entity_types
  /\ \A i \in DOMAIN r.summary.counts : r.summary.counts[i] = NoCount
  /\ (ValidArguments => Len(r.summary.counts) = 3)
  /\ r.summary.error_count = 1
  /\ Len(r.errors) = 1

\* C1: when the initial read fails with error code c (API initialization
\* included), validate() and process() return a result with successful =
\* false, error_code = c, all three entity counts null, error_count = 1 and
\* exactly one error; no validation stage, fix write or second read follows.
C1_ReadFailureShortCircuit ==
  read_error # None =>
    /\ pc = "done"
    /\ outcome = "returned"
    /\ WholeSheetFailure(result, read_error)
    /\ validations = 0
    /\ writes = <<>>
    /\ reads <= 1
    /\ made_changes = "unset"

C1_Witness ==
  /\ entry = "process"
  /\ pc = "done"
  /\ read_error = "sheet_not_found"
  /\ reads = 1

\* C2: one process() call performs at most one fix-and-rewrite cycle: at most
\* one batch write per worksheet, at most two reads and two validation runs,
\* and the re-validation is the end of the call, it never leads to a write.
C2_AtMostOneFixCycle ==
  /\ reads <= 2
  /\ validations <= 2
  /\ \A i, j \in DOMAIN writes :
       writes[i].entity_type = writes[j].entity_type => i = j
  /\ (reads = 2 => pc = "done" /\ Len(writes) <= Len(entity_types))

C2_Witness ==
  /\ pc = "done"
  /\ reads = 2
  /\ validations = 2
  /\ Len(writes) = 2

\* C3: process() reads and validates a second time exactly when apply_fixes
\* reported that it wrote something; when it reported no write (also on an
\* editable sheet) the sheet is read once and the first result is returned.
C3_RevalidateIffWriteReported ==
  entry = "process" =>
    /\ (reads = 2 => made_changes = "True")
    /\ (pc = "done" /\ made_changes = "True" => reads = 2)
    /\ (pc = "done" /\ made_changes = "False" =>
          /\ reads = 1
          /\ validations = 1
          /\ outcome = "returned"
          /\ result = validation_result)

C3_Witness ==
  /\ entry = "process"
  /\ pc = "done"
  /\ made_changes = "True"
  /\ reads = 2
  /\ writes # <<>>

\* C4: when the first validation's spreadsheet metadata is absent or has
\* can_edit = false, process() issues no batch write and does not read the
\* sheet again, whatever fixes are available.
C4_NoWriteWhenNotEditable ==
  (/\ entry = "process"
   /\ validations >= 1
   /\ \/ sheet_data.spreadsheet_metadata = NoMetadata
      \/ ~sheet_data.spreadsheet_metadata.can_edit) =>
    /\ writes = <<>>
    /\ reads = 1
    /\ validations = 1
    /\ made_changes = "unset"
    /\ pc = "done"
    /\ result = validation_result

C4_Witness ==
  /\ entry = "process"
  /\ pc = "done"
  /\ ~can_edit
  /\ outcome = "returned"
  /\ \E i \in DOMAIN result.errors : result.errors[i].input_fix # None

\* The cells process() has written a fix to, with their worksheet's entity type.
FixedCells ==
  UNION {{<<writes[i].entity_type, writes[i].value_ranges[k].range>> :
            k \in DOMAIN writes[i].value_ranges} : i \in DOMAIN writes}

\* C5: fixes converge: after process() wrote the fixes and validated again,
\* no error of the new result on a cell that was fixed still has a fix
\* available (no fix value is itself a fixable input of its field).
C5_FixConvergence ==
  (/\ entry = "process"
   /\ pc = "done"
   /\ outcome = "returned"
   /\ made_changes = "True") =>
    \A i \in DOMAIN result.errors :
      <<result.errors[i].entity_type, result.errors[i].cell>> \in FixedCells =>
        add_fix_to_error_if_available(result.errors[i], bionetwork).input_fix = None

C5_Witness ==
  /\ entry = "process"
  /\ pc = "done"
  /\ outcome = "returned"
  /\ made_changes = "True"
  /\ validations = 2
  /\ <<"donor", "B6">> \in FixedCells
  /\ sheet.donor[6][2] = "not applicable"

\* C6: an API error raised by a batch write makes process() return a
\* whole-sheet failure: error_code "api_error", counts null, error_count 1,
\* one error whose message carries the provider's code and message, the
\* metadata of the initial read preserved, and no second read.
C6_WriteFailureResult ==
  write_error = "APIError" =>
    /\ pc = "done"
    /\ outcome = "returned"
    /\ WholeSheetFailure(result, "api_error")
    /\ result.errors[1].message = "Received error 500 from Google Sheets API: Test error"
    /\ result.spreadsheet_metadata # NoMetadata
    /\ result.spreadsheet_metadata = sheet_data.spreadsheet_metadata
    /\ reads = 1
    /\ validations = 1

C6_Witness ==
  /\ write_error = "APIError"
  /\ pc = "done"
  /\ Len(writes) = 2
  /\ result.error_code = "api_error"

\* C7: for valid call arguments every validate() and process() call ends by
\* returning exactly one ValidationResult and never raises, whatever fails
\* while reading, validating, resolving fixes, writing fixes or re-reading.
\* Stated as the claim has it; a batch write that fails with anything but
\* gspread's APIError leaves process_google_sheet as an exception.
C7_AlwaysReturnsResult ==
  (ValidArguments /\ pc = "done") => (outcome = "returned" /\ result # NoResult)

\* C8: with a bionetwork outside the allow-list or an entity type that is not
\* configured, validate() and process() raise an input error before any
\* sheet read or write is attempted, and return no ValidationResult.
\* Stated as the claim has it; process_google_sheet initializes the APIs and
\* reads the sheet before the arguments are looked at.
C8_InvalidArgumentsFailFast ==
  (entry # None /\ ~ValidArguments) =>
    /\ reads = 0
    /\ writes = <<>>
    /\ outcome # "returned"
    /\ result = NoResult

\* A process() call on a read-only spreadsheet has returned its validation,
\* after a validate() call with the same arguments on the same sheet data.
ReadOnlyProcessAfterValidate ==
  /\ entry = "process"
  /\ prev # NoResult
  /\ pc = "done"
  /\ read_error = None
  /\ ~can_edit

C10_ValidateLeavesInputFixNull ==
  /\ (entry = "validate" /\ outcome = "returned") =>
       \A i \in DOMAIN result.errors : result.errors[i].input_fix = None
  /\ prev # NoResult =>
       \A i \in DOMAIN prev.errors : prev.errors[i].input_fix = None
  /\ entry = "validate" => (fix_passes = 0 /\ writes = <<>>)

C10_Witness ==
  /\ entry = "validate"
  /\ pc = "done"
  /\ outcome = "returned"
  /\ \E i \in DOMAIN result.errors :
       /\ result.errors[i].input_fix = None
       /\ add_fix_to_error_if_available(result.errors[i], bionetwork).input_fix # None

----------------------------------------------------------------------------
\* Components of the pipeline called on their own, on arguments drawn from
\* bounded sets.

\* The call has not returned.
Pending == [fn |-> "pending"]
Returned(fn, value) == [fn |-> fn, value |-> value]

\* Rows of a two-column worksheet: without data, whitespace only, with one cell.
ScanRowChoices == {<<"", "">>, <<" ", "   ">>, <<"x", "">>, <<"", "y">>}

\* The four rows between the header and spreadsheet row 6: blank, as the entry
\* sheets have them (a description and blank rows), all with text; or two
\* rows only.
ScanLeadIns ==
  {[i \in 1..4 |-> <<"", "">>],
   [i \in 1..4 |-> IF i = 1 THEN <<"Description", "Description">> ELSE <<"", "">>],
   [i \in 1..4 |-> <<"text", "text">>],
   [i \in 1..2 |-> <<"text", "text">>]}

ScanFrames ==
  {[columns |-> <<"donor_id", "manner_of_death">>, rows |-> lead \o rows] :
     lead \in ScanLeadIns, rows \in SeqsUpTo(ScanRowChoices, ScanMaxRows)}

\* Identifier values of a normalized table: missing, or one of three strings.
IdValues == {NoneVal, StrVal("foo"), StrVal("bar"), StrVal("baz")}

\* A normalized dataframe of rows to validate: its columns and, per row, the
\* 1-based index in the worksheet's dataframe and the cells by column.
Table(columns, cells) ==
  [columns |-> columns,
   rows |-> [k \in DOMAIN cells |->
               [index |-> start_row_index + k,
                row |-> [name \in {columns[i] : i \in DOMAIN columns} |->
                           cells[k][IndexOf(columns, name)]]]]]

\* Dataset tables with and without the identifier column.
UniquenessTables ==
  {Table(<<"dataset_id", "description">>, [k \in DOMAIN ids |-> <<ids[k], StrVal("d")>>]) :
     ids \in SeqsUpTo(IdValues, TableMaxRows)}
  \cup {Table(<<"description">>, [k \in 1..n |-> <<StrVal("d")>>]) : n \in 0..TableMaxRows}

\* Sample tables with and without their identifier and foreign-key columns.
SampleColumns ==
  {<<"sample_id", "donor_id", "dataset_id">>, <<"sample_id", "donor_id">>,
   <<"donor_id", "dataset_id">>, <<"sample_id">>}

SampleCells ==
  [sample_id : {NoneVal, StrVal("sm1")}, donor_id : {NoneVal, StrVal("dn1"), StrVal("dn2")},
   dataset_id : {NoneVal, StrVal("ds1")}]

SampleTables ==
  {Table(columns, [k \in DOMAIN cells |-> [i \in DOMAIN columns |-> cells[k][columns[i]]]]) :
     columns \in SampleColumns, cells \in SeqsUpTo(SampleCells, RefMaxRows)}

\* Donor and dataset tables: without identifier column, without rows, with
\* identifiers (one of them missing).
DonorTables ==
  {Table(<<"manner_of_death">>, <<<<StrVal("unknown")>>>>),
   Table(<<"donor_id">>, <<>>),
   Table(<<"donor_id">>, <<<<StrVal("dn1")>>>>),
   Table(<<"donor_id">>, <<<<NoneVal>>, <<StrVal("dn2")>>, <<StrVal("dn1")>>>>)}

DatasetTables ==
  {Table(<<"description">>, <<<<StrVal("d")>>>>),
   Table(<<"dataset_id">>, <<<<StrVal("ds1")>>>>)}

ReferentialCalls ==
  {[fn |-> "validate_referential_integrity",
    data_by_entity_type |-> [dataset |-> ds, donor |-> dn, sample |-> sm],
    class_name |-> "Sample"] :
     ds \in DatasetTables, dn \in DonorTables, sm \in SampleTables}

\* Errors handed to the fix resolver: with or without entity type and
\* column, and with an input that is missing, a string, a list or a row.
ResolverInputs ==
  {NoneVal, RowVal,
   StrVal("not_applicable"), StrVal("not applicable"),
   StrVal("surgical_donor"), StrVal("blood_draw"),
   ListVal(<<"not_applicable">>), ListVal(<<"surgical_donor">>),
   ListVal(<<"surgical_donor", "blood_draw">>)}

ResolverErrors ==
  {SheetErrorInfo(et, IF et = None THEN NoWorksheetId ELSE 0, "invalid value", 1, column,
                  IF column = None THEN None ELSE "B6", None, input) :
     et \in {None, "dataset", "donor", "sample"},
     column \in {None, "donor_id", "manner_of_death", "sample_source",
                 "sample_collection_method"},
     input \in ResolverInputs}

ResolverCalls ==
  {[fn |-> "add_fix_to_error_if_available", error |-> e, bionetwork |-> b] :
     e \in ResolverErrors, b \in {None, "gut"}}

\* Errors handed to the fix applicator: with and without fix, entity type
\* and cell, two fixes of one cell, and one cell address on two worksheets.
ErrorWithFix(entity_type, cell, input_fix) ==
  [SheetErrorInfo(entity_type, IF entity_type = None THEN NoWorksheetId ELSE 0,
                  "invalid value", 1, "manner_of_death", cell, None, StrVal("x"))
     EXCEPT !.input_fix = input_fix]

ApplicatorErrors ==
  {ErrorWithFix("donor", "B6", "not applicable"),
   ErrorWithFix("donor", "B6", "unknown"),
   ErrorWithFix("donor", "B7", "not applicable"),
   ErrorWithFix("sample", "B6", "surgical donor"),
   ErrorWithFix("donor", "B6", None),
   ErrorWithFix("donor", None, "not applicable"),
   ErrorWithFix(None, None, "not applicable")}

FixMaxErrors == 3

ApplicatorCalls ==
  {[fn |-> "get_fix_value_ranges_by_entity_type", errors |-> es,
    entity_types |-> default_entity_types] :
     es \in SeqsUpTo(ApplicatorErrors, FixMaxErrors)}

\* Slots of the schema classes by kind: contact_email and study_pi of
\* Dataset, cell_number_loaded of Sample, an integer list, and no slot.
NormSlots ==
  {NoSlot, Slot("string", FALSE), Slot("integer", FALSE),
   Slot("string", TRUE), Slot("integer", TRUE)}

NormMaxLen == 6
ListMaxLen == 5

\* Cells of a scalar column: signs, digits and commas in every arrangement,
\* bare or with a blank before or after.
ScalarCores == SeqsUpTo({"1", ",", "-"}, NormMaxLen)
ScalarPads == {<<<<>>, <<>>>>, <<<<" ">>, <<>>>>, <<<<>>, <<" ">>>>}

\* Cells of a multivalued column: digits, separators, blanks and commas.
ListCells == SeqsUpTo({"1", ";", " ", ","}, ListMaxLen)

\* The cells of the normalization tests, and a number with leading zeros.
NamedCells ==
  {<<"F", "o", "o">>,
   <<"B", "a", "r", ";", " ", "B", "a", "z">>,
   <<" ", " ", " ">>,
   <<"7", "8", "9", "0">>,
   <<"0", "0", "7">>,
   <<"-", "5", "6", ",", "7", "8", "9">>,
   <<"7", "8", ",", "9", "0", "1", ",", "2", "3", "4">>,
   <<"5", "6", ",", "7", "8">>,
   <<"9", ",", "0", "1", "2", "3", "4", "5">>}

\* Values a normalized row holds.
TypedValues ==
  {NoneVal, IntVal(1234), StrVal(<<"F", "o", "o">>), StrVal(<<"5", "6", ",", "7", "8">>),
   ListVal(<<>>), ListVal(<<StrVal(<<"F", "o", "o">>)>>), ListVal(<<IntVal(1), IntVal(2)>>)}

MapValueCall(slot, value) == [fn |-> "map_value", slot |-> slot, value |-> value]

ScalarCalls ==
  {MapValueCall(slot, StrVal(pad[1] \o core \o pad[2])) :
     slot \in {NoSlot, Slot("string", FALSE), Slot("integer", FALSE)},
     core \in ScalarCores, pad \in ScalarPads}

ListCalls ==
  {MapValueCall(slot, StrVal(cell)) :
     slot \in {Slot("string", TRUE), Slot("integer", TRUE)}, cell \in ListCells}

NamedCalls ==
  {MapValueCall(slot, StrVal(cell)) : slot \in NormSlots, cell \in NamedCells}

TypedCalls ==
  {MapValueCall(slot, value) : slot \in NormSlots, value \in TypedValues}

FrameCalls ==
  {[fn |-> "normalize_dataframe_values",
    df |-> [columns |-> <<"donor_id", "manner_of_death">>,
            rows |-> LeadIn(<<"donor_id", "manner_of_death">>) \o rows]] :
     rows \in SeqsUpTo(ScanRowChoices, ScanMaxRows)}

\* Lists of errors handed to the fix resolver.
ResolverLists ==
  SeqsUpTo({e \in ResolverErrors :
              /\ e.entity_type \in {None, "donor"}
              /\ e.column \in {None, "manner_of_death"}
              /\ e.input \in {RowVal, StrVal("not_applicable"), StrVal("not applicable")}},
           FixMaxErrors)

ResolverListCalls ==
  {[fn |-> "add_fixes_to_errors", errors |-> es, bionetwork |-> None] : es \in ResolverLists}

UnitCalls ==
  ReferentialCalls \cup ResolverCalls \cup ApplicatorCalls \cup
  {[fn |-> "row_indices", df |-> df] : df \in ScanFrames}
  \cup {[fn |-> "validate_id_uniqueness", data |-> t, class_name |-> "Dataset"] :
          t \in UniquenessTables}

UnitInit ==
  /\ sheet = [dataset |-> <<>>, donor |-> <<>>, sample |-> <<>>]
  /\ can_edit = FALSE
  /\ release = "current"
  /\ engine_fault = NoRow
  /\ Idle
  /\ \/ call \in UnitCalls
     \/ call \in ResolverListCalls
     \/ call \in ScalarCalls
     \/ call \in ListCalls
     \/ call \in NamedCalls
     \/ call \in TypedCalls
     \/ call \in FrameCalls
  /\ ret = Pending

\* The row scan of validate_google_sheet on one dataframe.
CallRowIndices ==
  /\ call.fn = "row_indices"
  /\ ret = Pending
  /\ ret' = Returned("row_indices", row_indices(call.df))
  /\ UNCHANGED <<pipeline, call>>

\* validate_id_uniqueness on one table.
CallValidateIdUniqueness ==
  /\ call.fn = "validate_id_uniqueness"
  /\ ret = Pending
  /\ ret' = Returned("validate_id_uniqueness",
                     validate_id_uniqueness(call.data, call.class_name))
  /\ UNCHANGED <<pipeline, call>>

\* validate_referential_integrity on the tables of the three entity types.
CallValidateReferentialIntegrity ==
  /\ call.fn = "validate_referential_integrity"
  /\ ret = Pending
  /\ ret' = Returned("validate_referential_integrity",
                     validate_referential_integrity(call.data_by_entity_type, call.class_name))
  /\ UNCHANGED <<pipeline, call>>

\* add_fix_to_error_if_available on one error.
CallAddFixToErrorIfAvailable ==
  /\ call.fn = "add_fix_to_error_if_available"
  /\ ret = Pending
  /\ ret' = Returned("add_fix_to_error_if_available",
                     add_fix_to_error_if_available(call.error, call.bionetwork))
  /\ UNCHANGED <<pipeline, call>>

\* get_fix_value_ranges_by_entity_type on one list of errors.
CallGetFixValueRangesByEntityType ==
  /\ call.fn = "get_fix_value_ranges_by_entity_type"
  /\ ret = Pending
  /\ ret' = Returned("get_fix_value_ranges_by_entity_type",
                     get_fix_value_ranges_by_entity_type(call.errors, call.entity_types))
  /\ UNCHANGED <<pipeline, call>>

\* map_column of normalize_dataframe_values on one value of a column.
CallMapValue ==
  /\ call.fn = "map_value"
  /\ ret = Pending
  /\ ret' = Returned("map_value", map_value(call.slot, call.value))
  /\ UNCHANGED <<pipeline, call>>

\* The row scan and normalize_dataframe_values on one dataframe.
CallNormalizeDataframeValues ==
  /\ call.fn = "normalize_dataframe_values"
  /\ ret = Pending
  /\ ret' = Returned("normalize_dataframe_values",
                     normalize_dataframe_values(call.df, row_indices(call.df)))
  /\ UNCHANGED <<pipeline, call>>

\* add_fixes_to_errors on one list of errors.
CallAddFixesToErrors ==
  /\ call.fn = "add_fixes_to_errors"
  /\ ret = Pending
  /\ ret' = Returned("add_fixes_to_errors", add_fixes_to_errors(call.errors, call.bionetwork))
  /\ UNCHANGED <<pipeline, call>>

UnitNext ==
  \/ CallAddFixesToErrors
  \/ CallMapValue
  \/ CallNormalizeDataframeValues
  \/ CallGetFixValueRangesByEntityType
  \/ CallRowIndices
  \/ CallValidateIdUniqueness
  \/ CallValidateReferentialIntegrity
  \/ CallAddFixToErrorIfAvailable

UnitSpec == UnitInit /\ [][UnitNext]_vars

\* The results the calls of a behaviour have produced so far.
ResultsProduced == {result, validation_result, prev} \ {NoResult}

\* C11: in every ValidationResult that validate() or process() returns
\* (successful, validation_error, no_data, read failure, write failure)
\* summary.error_count is the number of records in errors.
C11_ErrorCountIsNumberOfErrors ==
  \A r \in ResultsProduced : r.summary.error_count = Len(r.errors)

C11_Witness ==
  /\ pc = "done"
  /\ outcome = "returned"
  /\ result.error_code = "validation_error"
  /\ result.summary.error_count = 3
  /\ \E i \in DOMAIN result.errors : result.errors[i].message = "engine exception"
  /\ \E i \in DOMAIN result.errors : result.errors[i].message = "Duplicate identifier dn1"

\* C12: a result assembled by the validation stage has error_code
\* "validation_error" and successful = false when at least one error was
\* recorded, and error_code null and successful = true exactly when its
\* errors are empty.
C12_ErrorCodeOfValidatedResult ==
  /\ \A r \in ResultsProduced :
       r.error_code \in {None, "validation_error"} =>
         /\ (r.errors = <<>>) <=> (r.error_code = None)
         /\ r.successful <=> (r.error_code = None)
  /\ (entry = "validate" /\ outcome = "returned" /\ read_error = None) =>
       result.error_code \in {None, "validation_error", "no_data"}

C12_Witness ==
  /\ entry = "validate"
  /\ outcome = "returned"
  /\ result.error_code = "validation_error"
  /\ ~result.successful
  /\ Len(result.errors) = 1

\* A row holds data: some cell is neither missing nor whitespace only.
HoldsData(row) == \E j \in DOMAIN row : row[j] \notin {"", " ", "   "}

\* C13: row extraction returns exactly the maximal contiguous run of
\* non-blank rows that starts at 0-based data index 4 (spreadsheet row 6):
\* no row before index 4, stopping at the first row whose cells are all
\* missing or whitespace only, and no row after that blank row.
C13_RowExtraction ==
  (call.fn = "row_indices" /\ ret # Pending) =>
    LET rows == call.df.rows
        extracted == ret.value
        stop == 4 + Len(extracted)
    IN  /\ \A i \in DOMAIN extracted :
             /\ extracted[i] = 4 + (i - 1)
             /\ extracted[i] < Len(rows)
             /\ HoldsData(rows[extracted[i] + 1])
        /\ stop >= Len(rows) \/ ~HoldsData(rows[stop + 1])

C13_Witness ==
  /\ call.fn = "row_indices"
  /\ ret # Pending
  /\ ret.value = <<4, 5, 6>>
  /\ Len(call.df.rows) = 9
  /\ ~HoldsData(call.df.rows[8])
  /\ HoldsData(call.df.rows[9])
  /\ HoldsData(call.df.rows[1])

\* Positions of the requested entity types whose worksheet has nothing in
\* spreadsheet row 6.
WithoutData ==
  {i \in DOMAIN entity_types :
     Len(sheet[entity_types[i]]) < 6 \/ ~HoldsData(sheet[entity_types[i]][6])}

\* A call has returned the result of validating the sheet as it is.
ReturnedFirstValidation ==
  /\ pc = "done"
  /\ outcome = "returned"
  /\ validations = 1
  /\ writes = <<>>

\* C14: when the worksheet of a configured entity type yields no extracted
\* row, validate() does not raise; it returns a whole-sheet failure for that
\* entity type: successful = false, error_code "no_data", one error naming
\* the entity type and its worksheet, error_count 1, every count null, and
\* no row of any entity type validated.
C14_NoData ==
  ReturnedFirstValidation =>
    /\ (WithoutData = {}) <=> (result.error_code # "no_data")
    /\ WithoutData # {} =>
         LET first == CHOOSE i \in WithoutData : \A j \in WithoutData : i <= j
         IN  /\ WholeSheetFailure(result, "no_data")
             /\ result.errors[1].entity_type = entity_types[first]
             /\ result.errors[1].worksheet_id = worksheet_ids[entity_types[first]]
             /\ result.errors[1].message =
                  "No data found to validate starting from " \o entity_types[first] \o " row 6."
             /\ result.errors[1].row = NoRow

C14_Witness ==
  /\ ReturnedFirstValidation
  /\ entry = "validate"
  /\ release = "current"
  /\ engine_fault # NoRow
  /\ WithoutData = {3}
  /\ Len(sheet.donor) = 7
  /\ sheet.donor[7][2] = "not_applicable"
  /\ result.error_code = "no_data"
  /\ result.errors[1].entity_type = "sample"

\* C15: over the extracted rows of one entity type the uniqueness check
\* reports one "Duplicate identifier <value>" error for every occurrence
\* (the first included) of every identifier value that is not missing and
\* appears more than once, attributed to that occurrence's row and to the
\* identifier column, in row order; nothing for values that occur once, for
\* missing identifiers, or when the identifier column is absent.
C15_Uniqueness ==
  (call.fn = "validate_id_uniqueness" /\ ret # Pending) =>
    LET rows == call.data.rows
        reported == ret.value
        HasId == \E i \in DOMAIN call.data.columns : call.data.columns[i] = "dataset_id"
        Id(k) == rows[k].row["dataset_id"]
        Occurrences(k) == Cardinality({j \in DOMAIN rows : Id(j) = Id(k)})
        Duplicated == IF HasId
                        THEN {k \in DOMAIN rows : Id(k) # NoneVal /\ Occurrences(k) > 1}
                        ELSE {}
    IN  /\ Len(reported) = Cardinality(Duplicated)
        /\ \A k \in Duplicated :
             \E i \in DOMAIN reported :
               /\ reported[i].ctx_row_index = rows[k].index
               /\ reported[i].has_ctx_row
               /\ reported[i].loc = "dataset_id"
               /\ reported[i].msg = "Duplicate identifier " \o Id(k).v
               /\ reported[i].input = Id(k)
               /\ reported[i].ctx_row_id = Id(k).v
        /\ \A i, j \in DOMAIN reported :
             i < j => reported[i].ctx_row_index < reported[j].ctx_row_index

C15_Witness ==
  /\ call.fn = "validate_id_uniqueness"
  /\ ret # Pending
  /\ call.data.columns = <<"dataset_id", "description">>
  /\ Len(call.data.rows) = 5
  /\ call.data.rows[1].row["dataset_id"] = NoneVal
  /\ call.data.rows[2].row["dataset_id"] = StrVal("foo")
  /\ call.data.rows[3].row["dataset_id"] = StrVal("bar")
  /\ call.data.rows[4].row["dataset_id"] = StrVal("foo")
  /\ call.data.rows[5].row["dataset_id"] = NoneVal
  /\ Len(ret.value) = 2
  /\ ret.value[1].ctx_row_index = 6
  /\ ret.value[2].ctx_row_index = 8

\* C16: for each foreign-key field whose column is in the dependent table
\* the referential-integrity check reports one "doesn't exist" error for
\* exactly the rows whose foreign-key value is not missing and is not in the
\* referenced table's identifier column; when the referenced table has no
\* identifier column, for every row with a foreign-key value; never for a
\* row whose foreign-key value is missing.
C16_ReferentialIntegrity ==
  (call.fn = "validate_referential_integrity" /\ ret # Pending) =>
    LET tables == call.data_by_entity_type
        samples == tables.sample
        reported == ret.value
        Check(slot, foreign, foreign_id) ==
          LET Present == \E i \in DOMAIN samples.columns : samples.columns[i] = slot
              ForeignHasId == \E i \in DOMAIN foreign.columns : foreign.columns[i] = foreign_id
              Known == IF ForeignHasId
                         THEN {foreign.rows[j].row[foreign_id] : j \in DOMAIN foreign.rows}
                         ELSE {}
              Expected == IF Present
                            THEN {k \in DOMAIN samples.rows :
                                    /\ samples.rows[k].row[slot] # NoneVal
                                    /\ samples.rows[k].row[slot] \notin Known}
                            ELSE {}
              Errors == {i \in DOMAIN reported : reported[i].loc = slot}
          IN  /\ Cardinality(Errors) = Cardinality(Expected)
              /\ \A k \in Expected :
                   \E i \in Errors :
                     /\ reported[i].ctx_row_index = samples.rows[k].index
                     /\ reported[i].input = samples.rows[k].row[slot]
                     /\ reported[i].msg \in
                          {"Referenced donor with ID " \o samples.rows[k].row[slot].v
                             \o " doesn't exist",
                           "Referenced dataset with ID " \o samples.rows[k].row[slot].v
                             \o " doesn't exist"}
    IN  /\ Check("donor_id", tables.donor, "donor_id")
        /\ Check("dataset_id", tables.dataset, "dataset_id")
        /\ \A i \in DOMAIN reported : reported[i].loc \in {"donor_id", "dataset_id"}

C16_Witness ==
  /\ call.fn = "validate_referential_integrity"
  /\ ret # Pending
  /\ call.data_by_entity_type.sample.columns = <<"sample_id", "donor_id", "dataset_id">>
  /\ call.data_by_entity_type.donor.columns = <<"donor_id">>
  /\ Len(call.data_by_entity_type.donor.rows) = 1
  /\ call.data_by_entity_type.dataset.columns = <<"description">>
  /\ Len(call.data_by_entity_type.sample.rows) = 2
  /\ call.data_by_entity_type.sample.rows[1].row["donor_id"] = StrVal("dn2")
  /\ call.data_by_entity_type.sample.rows[1].row["dataset_id"] = StrVal("ds1")
  /\ call.data_by_entity_type.sample.rows[2].row["donor_id"] = NoneVal
  /\ call.data_by_entity_type.sample.rows[2].row["dataset_id"] = NoneVal
  /\ Len(ret.value) = 2

\* The identifiers in the donor worksheet's extracted rows.
DonorIds == {sheet.donor[g][1] : g \in 6..Len(sheet.donor)}

\* C17: the validation stage of validate() and process() runs the
\* referential-integrity check for every configured entity type: a
\* dependent row whose foreign-key value is not missing and matches no
\* identifier among the referenced entity type's extracted rows produces a
\* "Referenced <entity type> with ID <value> doesn't exist" error in the
\* returned ValidationResult, counted in error_count.
\* Stated as the claim has it; validate_google_sheet calls validate and
\* validate_id_uniqueness only.
C17_ReferentialIntegrityInValidation ==
  (ReturnedFirstValidation /\ WithoutData = {}) =>
    \A g \in 6..Len(sheet.sample) :
      sheet.sample[g][3] \notin DonorIds =>
        /\ result.summary.error_count >= 1
        /\ \E i \in DOMAIN result.errors :
             /\ result.errors[i].entity_type = "sample"
             /\ result.errors[i].column = "donor_id"
             /\ result.errors[i].message =
                  "Referenced donor with ID " \o sheet.sample[g][3] \o " doesn't exist"

\* The key (entity_type, column, input) of an error is a key of the fix table.
InFixTable(entity_type, column, value) ==
  /\ entity_type \in DOMAIN sheet_value_fix_map
  /\ column \in DOMAIN sheet_value_fix_map[entity_type]
  /\ value \in DOMAIN sheet_value_fix_map[entity_type][column]

\* The errors that get a fix: entity type, column and string input are
\* there, the column is an attribute of the entity's induced class, and the
\* triple is a key of the fix table.
GetsFix(error, network) ==
  /\ error.entity_type # None
  /\ error.column # None
  /\ error.input.t = "str"
  /\ error.column \in
       induced_class_attributes(get_entity_class_name(error.entity_type, network))
  /\ InFixTable(error.entity_type, error.column, error.input.v)

\* C18: add_fix_to_error_if_available sets input_fix to the table's value
\* for (entity_type, column, input) exactly when the error has an entity
\* type, a column and a string input, the column is an attribute of the
\* entity's induced class and the triple is a key of the table; every other
\* error, a list or row input included, comes back without a fix and
\* otherwise unchanged.
C18_FixResolver ==
  (call.fn = "add_fix_to_error_if_available" /\ ret # Pending) =>
    IF GetsFix(call.error, call.bionetwork)
      THEN ret.value =
             [call.error EXCEPT !.input_fix =
                sheet_value_fix_map[call.error.entity_type][call.error.column][call.error.input.v]]
      ELSE ret.value = call.error /\ ret.value.input_fix = None

C18_Witness ==
  /\ call.fn = "add_fix_to_error_if_available"
  /\ ret # Pending
  /\ call.bionetwork = "gut"
  /\ call.error.entity_type = "sample"
  /\ call.error.column = "sample_collection_method"
  /\ call.error.input = StrVal("blood_draw")
  /\ ret.value.input_fix = "blood draw"

\* The errors of a list that carry a write instruction, and those of them
\* that no earlier error of the same entity type and cell precedes.
CarriesFix(e) == e.input_fix # None /\ e.entity_type # None /\ e.cell # None

KeptErrors(errors) ==
  {i \in DOMAIN errors :
     /\ CarriesFix(errors[i])
     /\ \A j \in 1..(i - 1) :
          CarriesFix(errors[j]) =>
            <<errors[j].entity_type, errors[j].cell>> # <<errors[i].entity_type, errors[i].cell>>}

\* The n-th smallest member of a set of numbers.
NthOf(S, n) == CHOOSE i \in S : Cardinality({j \in S : j < i}) = n - 1

\* C19: get_fix_value_ranges_by_entity_type builds instructions only from
\* errors with a fix, an entity type and a cell; of the errors of one
\* (entity type, cell) pair only the first yields an instruction; the
\* instructions of a worksheet are in the order of their errors.
C19_FixInstructions ==
  (call.fn = "get_fix_value_ranges_by_entity_type" /\ ret # Pending) =>
    /\ DOMAIN ret.value = DOMAIN call.entity_types
    /\ \A k \in DOMAIN call.entity_types :
         LET mine == {i \in KeptErrors(call.errors) :
                        call.errors[i].entity_type = call.entity_types[k]}
         IN  /\ Len(ret.value[k]) = Cardinality(mine)
             /\ \A n \in 1..Cardinality(mine) :
                  ret.value[k][n] =
                    [range |-> call.errors[NthOf(mine, n)].cell,
                     values |-> <<<<call.errors[NthOf(mine, n)].input_fix>>>>]

C19_Witness ==
  /\ call.fn = "get_fix_value_ranges_by_entity_type"
  /\ ret # Pending
  /\ call.errors = <<ErrorWithFix("donor", "B7", "not applicable"),
                     ErrorWithFix("donor", "B6", "not applicable"),
                     ErrorWithFix("donor", "B6", "unknown")>>
  /\ ret.value = <<<<>>,
                   <<[range |-> "B7", values |-> <<<<"not applicable">>>>],
                     [range |-> "B6", values |-> <<<<"not applicable">>>>]>>,
                   <<>>>>

\* The batch writes apply_fixes owes: one for each worksheet that has
\* value ranges, in the order of the entity types, with all of them.
RECURSIVE WritesOwed(_)
WritesOwed(k) ==
  IF k > Len(value_ranges) THEN <<>>
  ELSE (IF value_ranges[k] = <<>> THEN <<>>
        ELSE <<[entity_type |-> entity_types[k], value_ranges |-> value_ranges[k]]>>)
       \o WritesOwed(k + 1)

\* C20: apply_fixes issues one batch write to each worksheet that has write
\* instructions, with all of them, and none to the other worksheets; it
\* returns true exactly when it issued an instruction.  A failing write
\* ends the calls early, so the calls issued so far are always the first of
\* the calls owed.  The instructions are those of the validation result
\* apply_fixes was given.
C20_OneBatchWritePerWorksheet ==
  /\ Len(writes) <= Len(WritesOwed(1))
  /\ writes = SubSeq(WritesOwed(1), 1, Len(writes))
  /\ made_changes # "unset" =>
       /\ writes = WritesOwed(1)
       /\ made_changes = "True" <=> \E k \in DOMAIN value_ranges : value_ranges[k] # <<>>
  /\ (pc = "p_apply" \/ (made_changes # "unset" /\ reads = 1)) =>
       value_ranges = get_fix_value_ranges_by_entity_type(validation_result.errors, entity_types)

C20_Witness ==
  /\ pc = "done"
  /\ made_changes = "True"
  /\ entity_types = <<"dataset", "donor", "sample">>
  /\ Len(writes) = 2
  /\ writes[1].entity_type = "donor"
  /\ Len(writes[1].value_ranges) = 2
  /\ writes[2].entity_type = "sample"

\* A call of the normalizer on a cell of a sheet has returned.
NormalizedCell == call.fn = "map_value" /\ ret # Pending /\ call.value.t = "str"

IsBlank(text) == \A i \in DOMAIN text : text[i] = " "

\* C21: in a scalar integer column a cell that is not blank is parsed to an
\* integer (commas removed) exactly when the trimmed cell is an optional '-'
\* and then digits without separators or 1-3 digits and groups of a comma
\* and 3 digits; any other cell stays the original string.  Stated as the
\* claim has it; the code matches the cell as it is, not the trimmed cell.
C21_IntegerParsing ==
  (NormalizedCell /\ call.slot = Slot("integer", FALSE) /\ ~IsBlank(call.value.v)) =>
    LET trimmed == strip(call.value.v)
    IN  IF int_re_fullmatch(trimmed)
          THEN ret.value = IntVal(int(without_commas(trimmed)))
          ELSE ret.value = call.value

\* C22: a cell that is empty or whitespace only normalizes to null in every
\* column, whatever its slot, and the normalized rows are the extracted
\* rows in their order.
C22_BlankIsNull ==
  /\ (NormalizedCell /\ IsBlank(call.value.v)) => ret.value = NoneVal
  /\ (call.fn = "normalize_dataframe_values" /\ ret # Pending) =>
       /\ ret.value.columns = call.df.columns
       /\ \A k \in DOMAIN ret.value.rows :
            /\ ret.value.rows[k].index = start_row_index + k
            /\ ret.value.rows[k].index <= Len(call.df.rows)
            /\ \A c \in DOMAIN call.df.columns :
                 LET cell == call.df.rows[start_row_index + k][c]
                 IN  ret.value.rows[k].row[call.df.columns[c]] =
                       IF cell \in {"", " ", "   "} THEN NoneVal ELSE StrVal(cell)

C22_Witness ==
  /\ NormalizedCell
  /\ call.slot = Slot("string", TRUE)
  /\ call.value.v = <<" ", " ", " ">>
  /\ ret.value = NoneVal

\* The list a multivalued cell stands for: the pieces between the ';' of the
\* cell, each trimmed and parsed by the rule of a scalar cell.
PiecesOf(slot, text) ==
  LET pieces == split(text, ";")
  IN  ListVal([i \in DOMAIN pieces |-> parse_item(slot, strip(pieces[i]))])

\* C23: in a multivalued column a cell that is not blank normalizes to the
\* list of its ';'-separated pieces, each trimmed and parsed by the scalar
\* rule; a blank cell normalizes to null.
C23_MultivaluedParsing ==
  (NormalizedCell /\ call.slot # NoSlot /\ call.slot.multivalued) =>
    ret.value = IF IsBlank(call.value.v) THEN NoneVal ELSE PiecesOf(call.slot, call.value.v)

\* C23 as stated: a blank cell of a multivalued column normalizes to the
\* empty list.
C23_BlankIsEmptyList ==
  (NormalizedCell /\ call.slot # NoSlot /\ call.slot.multivalued) =>
    ret.value = IF IsBlank(call.value.v) THEN ListVal(<<>>) ELSE PiecesOf(call.slot, call.value.v)

C23_Witness ==
  /\ NormalizedCell
  /\ call.slot = Slot("integer", TRUE)
  /\ call.value.v = <<"1", ";", " ", "1", "1">>
  /\ ret.value = ListVal(<<IntVal(1), IntVal(11)>>)

\* A value is what normalization leaves in a column of the slot.
AlreadyNormalized(slot, value) ==
  \/ value = NoneVal
  \/ value.t = "int" /\ slot = Slot("integer", FALSE)
  \/ value.t = "list" /\ slot # NoSlot /\ slot.multivalued
  \/ /\ value.t = "str"
     /\ slot = NoSlot \/ ~slot.multivalued
     /\ ~IsBlank(value.v)
     /\ ~(slot = Slot("integer", FALSE) /\ int_re_fullmatch(value.v))

\* C24: normalizing a value that is already normalized (null, string,
\* integer or list) returns it unchanged.  Stated as the claim has it; the
\* code calls strip() on every value.
C24_NormalizationIdempotent ==
  (call.fn = "map_value" /\ ret # Pending /\ AlreadyNormalized(call.slot, call.value)) =>
    ret.value = call.value

\* The errors the validation of one row reports, by their messages: the
\* engine's violations and the error that stands for an engine exception.
RowValidationMessages ==
  {"Field required", "Input should be a valid string", "Input should be a permissible value",
   "Extra inputs are not permitted", "engine exception"}

OfFaultedRow(e) ==
  e.entity_type = "donor" /\ e.row = engine_fault /\ e.message \in RowValidationMessages

\* validate_google_sheet has validated a sheet on whose donor row the engine raises.
ValidatedWithEngineFault ==
  /\ ReturnedFirstValidation
  /\ entry = "validate"
  /\ result.error_code \in {None, "validation_error"}
  /\ engine_fault # NoRow
  /\ "donor" \in {entity_types[i] : i \in DOMAIN entity_types}
  /\ Len(sheet.donor) >= engine_fault + 1

\* C25: an exception of the schema engine on one row becomes exactly one
\* error with the exception's message, the row's index and primary key, no
\* column and no cell; the uniqueness errors and the errors of every other
\* row of this and of the other worksheets are those of a pass without the
\* exception, in the same order.
C25_EngineExceptionIsOneError ==
  ValidatedWithEngineFault =>
    LET mine == SelectSeq(result.errors, OfFaultedRow)
        clean == ValidateSheetData(release, NoRow, entity_types, bionetwork,
                                   SpreadsheetInfo(sheet, can_edit, entity_types))
    IN  /\ Len(mine) = 1
        /\ mine[1].message = "engine exception"
        /\ mine[1].row = engine_fault
        /\ mine[1].primary_key = "donor_id:" \o sheet.donor[engine_fault + 1][1]
        /\ mine[1].column = None
        /\ mine[1].cell = None
        /\ SelectSeq(result.errors, LAMBDA e : ~OfFaultedRow(e))
             = SelectSeq(clean.errors, LAMBDA e : ~OfFaultedRow(e))
        /\ result.summary.counts = clean.summary.counts

C25_Witness ==
  /\ ValidatedWithEngineFault
  /\ \E i \in DOMAIN result.errors :
       /\ result.errors[i].message = "engine exception"
       /\ \E j \in (i + 1)..Len(result.errors) :
            result.errors[j].entity_type = "donor" /\ result.errors[j].row = engine_fault + 1
       /\ \E j \in (i + 1)..Len(result.errors) : result.errors[j].entity_type = "sample"

\* process() has validated the sheet a second time.
Revalidated == entry = "process" /\ validations = 2

\* C26: the second validation ends the call: process() returns its result
\* as validate() gives it, without fix values, after two reads and the
\* writes of apply_fixes only; the resolver's second pass only records
\* whether an error of the new result still has a fix.
C26_RevalidationEndsTheCall ==
  Revalidated =>
    /\ pc = "done"
    /\ outcome = "returned"
    /\ reads = 2
    /\ fix_passes = 2
    /\ Len(writes) = Cardinality({k \in DOMAIN value_ranges : value_ranges[k] # <<>>})
    /\ result = ValidateSheetData(release, engine_fault, entity_types, bionetwork,
                                  SpreadsheetInfo(sheet, can_edit, entity_types))
    /\ \A i \in DOMAIN result.errors : result.errors[i].input_fix = None
    /\ anomaly <=> \E i \in DOMAIN result.errors :
                     add_fix_to_error_if_available(result.errors[i], bionetwork).input_fix # None

C26_Witness ==
  /\ Revalidated
  /\ pc = "done"
  /\ anomaly
  /\ Len(writes) = 1
  /\ \E i \in DOMAIN result.errors :
       /\ result.errors[i].input = StrVal("not_applicable")
       /\ result.errors[i].input_fix = None

\* Positions of a column name in the header row of an entity type's worksheet.
HeaderPositions(entity_type, column) ==
  {c \in DOMAIN sheet[entity_type][1] : sheet[entity_type][1][c] = column}

\* C27: the cell of an error on a field of a row is the A1 reference of the
\* spreadsheet row one below the row's 1-based data index (the header is
\* row 1) and of the first position of the field in the worksheet's header;
\* the cell holds the error's input.  An error on a field that is no column
\* of the worksheet has no cell, and validation returns all the same.
C27_CellAddress ==
  (ReturnedFirstValidation /\ result.error_code = "validation_error") =>
    \A i \in DOMAIN result.errors :
      LET e == result.errors[i]
          at == HeaderPositions(e.entity_type, e.column)
      IN  (e.column # None /\ e.row # NoRow) =>
            IF at = {}
              THEN e.cell = None
              ELSE \E c \in at :
                     /\ \A d \in at : c <= d
                     /\ e.cell = <<"A", "B", "C">>[c] \o ToString(e.row + 1)
                     /\ e.input.t = "str" => sheet[e.entity_type][e.row + 1][c] = e.input.v

C27_Witness ==
  /\ ReturnedFirstValidation
  /\ \E i \in DOMAIN result.errors :
       /\ result.errors[i].entity_type = "donor"
       /\ result.errors[i].column = "manner_of_death"
       /\ result.errors[i].row = 6
       /\ result.errors[i].cell = "B7"
  /\ \E i \in DOMAIN result.errors :
       /\ result.errors[i].column = "doublet_detection"
       /\ result.errors[i].cell = None

\* C28: every error of a row of a worksheet has as primary key the name of
\* the entity type's primary-key field, a colon and the row's value of that
\* field (null when the worksheet has no such column).  Stated as the claim
\* has it; a duplicate-identifier error carries the bare identifier.
C28_PrimaryKeyOfRowErrors ==
  (ReturnedFirstValidation /\ result.error_code = "validation_error") =>
    \A i \in DOMAIN result.errors :
      LET e == result.errors[i]
          primary_key_field == sheet_structure_by_entity_type[e.entity_type].primary_key_field
          at == HeaderPositions(e.entity_type, primary_key_field)
      IN  e.row # NoRow =>
            IF at = {}
              THEN e.primary_key = None
              ELSE \E c \in at :
                     e.primary_key =
                       primary_key_field \o ":" \o sheet[e.entity_type][e.row + 1][c]

\* The returned error is the given one in every field but input_fix, and in
\* input_fix too when it has no fix.
SameButFix(given, returned) ==
  /\ [returned EXCEPT !.input_fix = None] = [given EXCEPT !.input_fix = None]
  /\ returned.input_fix = None => returned = given

\* C29: the resolver returns each error as it was given in every field
\* other than input_fix, and unchanged when it finds no fix; a list comes
\* back with the same errors in the same order; the error and the list
\* that were handed in are what they were before the call.
C29_ResolverFrame ==
  [][/\ call' = call
     /\ (call.fn = "add_fix_to_error_if_available" /\ ret' # Pending) =>
          SameButFix(call.error, ret'.value)
     /\ (call.fn = "add_fixes_to_errors" /\ ret' # Pending) =>
          /\ Len(ret'.value) = Len(call.errors)
          /\ \A i \in DOMAIN call.errors : SameButFix(call.errors[i], ret'.value[i])]_vars

C29_Witness ==
  /\ call.fn = "add_fixes_to_errors"
  /\ ret # Pending
  /\ Len(call.errors) = 3
  /\ ret.value[1] = call.errors[1]
  /\ ret.value[2].input_fix = "not applicable"
  /\ call.errors[2].input_fix = None
  /\ ret.value[3] = call.errors[3]

\* The cells of a worksheet hold the values of a batch write.
Applied(write) ==
  \A k \in DOMAIN write.value_ranges :
    \E g \in DOMAIN sheet[write.entity_type] : \E c \in DOMAIN sheet[write.entity_type][g] :
      /\ rowcol_to_a1(g, c) = write.value_ranges[k].range
      /\ sheet[write.entity_type][g][c] = write.value_ranges[k].values[1][1]

\* C30: when the batch write to a worksheet fails, the writes to the earlier
\* worksheets, issued in the order of the entity types, stay applied, no
\* later worksheet is written, and process() returns the api_error
\* whole-sheet failure after one read and one validation.  Stated as the
\* claim has it; a write that fails with exhausted retries leaves process()
\* as an exception.
C30_FailedWriteEndsTheCall ==
  write_error # None =>
    /\ pc = "done"
    /\ reads = 1
    /\ validations = 1
    /\ Len(writes) >= 1
    /\ writes = SubSeq(WritesOwed(1), 1, Len(writes))
    /\ \A i \in 1..(Len(writes) - 1) : Applied(writes[i])
    /\ outcome = "returned"
    /\ WholeSheetFailure(result, "api_error")

====
